---- MODULE Spec2Model ----
(***************************************************************************)
(* The podcast generation pipeline of fionntan: the persisted Podcast and  *)
(* GenerationTask records, the Celery queue, the two task functions        *)
(* generate_podcast_script / generate_podcast_audio (one run per delivery  *)
(* of a message, cut at every db.session.commit()), and the HTTP handlers  *)
(* create_podcast and cancel_task.                                         *)
(***************************************************************************)
EXTENDS Integers, Sequences, FiniteSets, TLC

\* ------------------------------------------------------------------ bounds
\* Messages the broker delivers a second time (at-least-once delivery).
MaxRedeliveries == 1
\* Podcasts created in a behaviour of the fault-free specification.
MaxHappyPodcasts == 2
\* The largest retry limit an ArxivService instance is given.
MaxRetryLimit == 2
\* The longest list of paper ids a podcast is requested with.
MaxIds == 2
\* The most sections and segments, counted together, of a rendered script.
MaxItems == 4
\* How many regenerate_audio requests a podcast gets.
MaxRegenerations == 1

\* --------------------------------------------------------------- constants
\* app/models.py: GenerationTask.STATUS_* and Podcast.STATUS_* (same strings).
STATUS_PENDING == "pending"
STATUS_QUEUED == "queued"
STATUS_PROCESSING == "processing"
STATUS_COMPLETED == "completed"
STATUS_FAILED == "failed"
STATUS_CANCELLED == "cancelled"
TYPE_SCRIPT_GENERATION == "script_generation"
TYPE_AUDIO_GENERATION == "audio_generation"

\* The states the specification calls terminal.
Terminal == {STATUS_COMPLETED, STATUS_FAILED, STATUS_CANCELLED}

\* Texts are sequences of fragments, so that an f-string is a concatenation.
NoMessage == <<>>
MsgNoPapers == <<"No papers found based on the provided criteria.">>
MsgNoSource == <<"No paper source defined: use_preferences or paper_ids required.">>
MsgNoScript == <<"Podcast or its script not found for audio generation.">>
MsgCancelled == <<"Task cancelled by user">>
\* str(e) of an exception raised by a collaborator.
MsgSearch == <<"paper search failed">>
MsgCompose == <<"script generation failed">>
MsgBroker == <<"broker unreachable">>
MsgTTS == <<"speech synthesis failed">>
MsgUpload == <<"upload failed">>

\* The paper_ids lists a create_podcast request can carry, the ids the paper
\* source knows, and the result lists a preference search can return.
PaperIdLists == {<<>>, <<"paper_id_A">>}
KnownIds == {"paper_id_A"}
SearchResults == {<<>>, <<"test-paper-1">>}

\* app/api/tasks.py lines 1-10: the names the module imports.  cancel_task
\* uses datetime (line 70) and db (lines 77, 85); neither is imported.
DatetimeImported == FALSE
DbImported == FALSE

VARIABLES
    config,     \* CELERY_TASK_EAGER_PROPAGATES of the Flask configuration
    podcasts,   \* table podcasts: Seq of rows, the id is the index
    tasks,      \* table generation_tasks: the rows by task_id
    sent,       \* every message a .delay() handed to the broker
    pending,    \* the messages waiting in the queue
    redelivered,\* how many messages the broker has delivered again
    run,        \* the task executions: the task functions' locals by run
    resp,       \* the last HTTP response of create_podcast / cancel_task
    svc,        \* one call of a retried service method, step by step
    fetch,      \* the paper fetching of one script job, one paper per step
    render,     \* the rendering of one script to audio
    voice,      \* the voices of the renderers and the passes that use them
    store       \* the bucket of the StorageService and its last call

\* The state of the pipeline and the state of the service calls.
pipeline == <<config, podcasts, tasks, sent, pending, redelivered, run, resp>>
services == <<svc, fetch, render, voice, store>>
vars == <<config, podcasts, tasks, sent, pending, redelivered, run, resp, svc,
          fetch, render, voice, store>>

\* ------------------------------------------------------------------ helpers
TaskIds == DOMAIN tasks
PodcastIds == 1..Len(podcasts)
RunIds == DOMAIN run

\* A table without rows.
Empty == [k \in {} |-> k]

\* tbl with the row added under key.
Insert(tbl, key, row) == [k \in DOMAIN tbl \cup {key} |-> IF k = key THEN row ELSE tbl[k]]

\* task_id is str(uuid.uuid4()), drawn by the code that adds the row: the
\* model names the uuid after the podcast and the draw.  by is 0 for the
\* draw of create_podcast and k for the draw of the k-th run of the
\* podcast's script task.
TaskId(podcast, by) == [podcast |-> podcast, by |-> by]
NoTask == TaskId(0, 0)

\* The n-th call of the task function for task t.
RunId(t, n) == [podcast |-> t.podcast, by |-> t.by, n |-> n]
NoRun == RunId(NoTask, 0)

\* A GenerationTask row as the constructor and the column defaults make it.
\* parent is no column: it records the run whose commit added the row
\* (NoRun for create_podcast).
NewTask(podcast, type, parent) ==
    [podcast |-> podcast, type |-> type, status |-> STATUS_QUEUED, progress |-> 0,
     error |-> NoMessage, started |-> FALSE, completed |-> FALSE,
     parent |-> parent]

\* A Podcast row as create_podcast makes it; scripts and audio are the rows
\* of podcast_scripts and podcast_audio that reference it.
NewPodcast ==
    [status |-> STATUS_PENDING, error |-> NoMessage, scripts |-> 0, audio |-> <<>>,
     completed |-> FALSE]

\* The keyword arguments of a .delay() call.
ScriptMessage(task, podcast, usePrefs, ids) ==
    [task |-> task, podcast |-> podcast, kind |-> TYPE_SCRIPT_GENERATION,
     usePrefs |-> usePrefs, ids |-> ids]

AudioMessage(task, podcast) ==
    [task |-> task, podcast |-> podcast, kind |-> TYPE_AUDIO_GENERATION,
     usePrefs |-> FALSE, ids |-> <<>>]

\* A faulty variant of ProgressSteps: the script task reports 70 before 30.
ProgressStepsUnordered(kind) ==
    IF kind = TYPE_SCRIPT_GENERATION THEN <<10, 70, 30, 100>>
    ELSE <<10, 60, 80, 100>>

\* The progress a task function reports, in the order of its statements:
\* update_state at lines 41, 90 and 101 and the returned dictionary of line
\* 137; update_state at lines 174, 183 and 192 and the dictionary of line 215.
ProgressSteps(kind) ==
    IF kind = TYPE_SCRIPT_GENERATION THEN <<10, 30, 70, 100>>
    ELSE <<10, 60, 80, 100>>

\* What a run has reported when it has passed n of these statements.
Reported(kind, n) == SubSeq(ProgressSteps(kind), 1, n)

\* What a session holds of a podcast row it has not loaded.
NoRow == [status |-> "", error |-> NoMessage]

\* The local state of a task function called with the message m; progress
\* is what the run has reported so far, seen the columns of the podcast row
\* as the run's session loaded them.
NewRun(m) ==
    [task |-> m.task, podcast |-> m.podcast, kind |-> m.kind,
     usePrefs |-> m.usePrefs, ids |-> m.ids, pc |-> "start",
     taskObj |-> FALSE, podcastObj |-> FALSE, papers |-> <<>>,
     exc |-> NoMessage, child |-> NoTask, url |-> <<>>, tts |-> FALSE,
     raised |-> FALSE, progress |-> <<>>, seen |-> NoRow]

Response(op, task, code) == [op |-> op, task |-> task, code |-> code]

\* No script is being rendered.
NoRender ==
    [pc |-> "idle", by |-> "none", sections |-> <<>>, enable_ssml |-> FALSE,
     intro |-> FALSE, outro |-> FALSE, segments |-> <<>>, synthesized |-> {},
     skipped |-> {}, audio_files |-> <<>>, add_transitions |-> FALSE,
     combined |-> <<>>, mix |-> <<>>, audio_segments |-> <<>>, duration |-> 0,
     exc |-> NoMessage]

\* No script job is fetching papers.
NoFetch ==
    [pc |-> "idle", use_preferences |-> FALSE, preferences |-> {},
     usePrefs |-> FALSE, ids |-> <<>>, searches |-> <<>>, calls |-> <<>>,
     found |-> <<>>, temp_papers_list |-> <<>>, fetched_papers_data |-> FALSE,
     papers |-> <<>>, composed |-> FALSE, exc |-> NoMessage]

\* No call of a service method is in progress.
NoCall ==
    [fn |-> "none", pc |-> "idle", limit |-> 0, count |-> 0, i |-> 0,
     trace |-> <<>>, result |-> "none", value |-> "", err |-> "", last |-> ""]

\* The speaker ids of the scripts, lower-cased by parse_script (line 402),
\* the two speakers every renderer has a voice for, and the speaker of the
\* script of test_voice.
ScriptSpeakers == {"bob", "emma"}
AllSpeakers == ScriptSpeakers \cup {"alex", "jordan", "test"}

\* A VoiceConfig; the rate and the pitch are in hundredths.
VoiceConfig(name, gender, speaking_rate, pitch) ==
    [name |-> name, gender |-> gender, speaking_rate |-> speaking_rate,
     pitch |-> pitch]

\* No voice is configured for the speaker.
NoVoice == [name |-> "", gender |-> "", speaking_rate |-> 0, pitch |-> 0]

\* TTSConfig.__post_init__: the voices of a renderer made without any.
DefaultVoiceConfigs ==
    [speaker \in AllSpeakers |->
        CASE speaker = "alex" -> VoiceConfig("en-US-Neural2-D", "MALE", 105, 0)
          [] speaker = "jordan" ->
                 VoiceConfig("en-US-Neural2-A", "MALE", 95, -100)
          [] OTHER -> NoVoice]

\* The requests that render on the renderer singleton at the same time.
Passes == {1, 2}

\* The speech segments of a request: in the first request every speaker has
\* two, and they are followed one by one; what the other request synthesizes
\* changes nothing the first request reads, and is not followed.
Segments(p, speakers) == IF p = 1 THEN speakers \o speakers ELSE <<>>

\* No request is rendering.  voice_configs is the local variable of
\* render_podcast: the dictionary it refers to, by name.
NoPass ==
    [pc |-> "idle", by |-> "none", speakers |-> <<>>,
     gender_preference |-> "none", missing_speakers |-> <<>>,
     recommended |-> [speaker \in AllSpeakers |-> NoVoice], todo |-> <<>>,
     used |-> [speaker \in AllSpeakers |-> {}], voice_configs |-> "none"]

\* No test_voice request has been made.
NoTest == [pc |-> "idle", original_configs |-> "none"]

\* A dictionary without voices.
NoVoiceConfigs == [speaker \in AllSpeakers |-> NoVoice]

\* The renderer singleton has the default voices, and no request is rendering.
\* configs names the dictionary renderer.config.voice_configs refers to: the
\* one of TTSConfig.__post_init__ ("original", its entries in voice_configs)
\* or the one a test_voice request has made ("test", its entries in
\* test_voice_config).
NoVoices ==
    [voice_configs |-> DefaultVoiceConfigs, pass |-> [p \in Passes |-> NoPass],
     configs |-> "original", test_voice_config |-> NoVoiceConfigs,
     test |-> NoTest]

\* No StorageService has been made, and the bucket is empty.
NoStore ==
    [bucket_name |-> "", blobs |-> {}, file_url |-> <<>>, op |-> "none",
     outcome |-> "none", value |-> <<>>]

Init ==
    /\ config \in BOOLEAN
    /\ podcasts = <<>>
    /\ tasks = Empty
    /\ sent = {}
    /\ pending = {}
    /\ redelivered = 0
    /\ run = Empty
    /\ resp = Response("none", NoTask, 0)
    /\ svc = NoCall
    /\ fetch = NoFetch
    /\ render = NoRender
    /\ voice = NoVoices
    /\ store = NoStore

\* ------------------------------------------------------------ create_podcast
\* user.preferences: no row ({}), or the row with its topics, categories and
\* authors, each a list that is empty or not.
Preferences(topics, categories, authors) ==
    [topics |-> topics, categories |-> categories, authors |-> authors]
Lists == {<<>>, <<"x">>}
UserPreferences ==
    {{}} \cup {{Preferences(topics, categories, authors)} :
                  topics \in Lists, categories \in Lists, authors \in Lists}

\* A faulty variant of NoPaperSource: the check of the lists of the
\* preferences is missing.
NoPaperSourceUnlessRow(preferences, use_preferences, paper_ids) ==
    IF use_preferences THEN preferences = {} ELSE paper_ids = <<>>

\* app/api/podcasts.py create_podcast, lines 51-61: with use_preferences the
\* user has no preferences, or preferences without topics, categories and
\* authors; without it there are no paper_ids.
NoPaperSource(preferences, use_preferences, paper_ids) ==
    IF use_preferences
    THEN \/ preferences = {}
         \/ \A row \in preferences :
                ~(row.topics # <<>> \/ row.categories # <<>> \/ row.authors # <<>>)
    ELSE paper_ids = <<>>

\* app/api/podcasts.py create_podcast, for a user that exists and a body the
\* schema accepts; brokerOk is whether generate_podcast_script.delay returns.
CreatePodcast(preferences, usePrefs, ids, brokerOk) ==
    /\ IF NoPaperSource(preferences, usePrefs, ids)
       THEN /\ resp' = Response("create", NoTask, 400)
            /\ UNCHANGED <<podcasts, tasks, sent, pending>>
       ELSE LET p == Len(podcasts) + 1
                t == TaskId(p, 0)
                m == ScriptMessage(t, p, usePrefs, ids)
            IN /\ podcasts' = Append(podcasts, NewPodcast)
               /\ tasks' = Insert(tasks, t, NewTask(p, TYPE_SCRIPT_GENERATION, NoRun))
               /\ IF brokerOk
                  THEN /\ sent' = sent \cup {m}
                       /\ pending' = pending \cup {m}
                       /\ resp' = Response("create", t, 200)
                  ELSE /\ UNCHANGED <<sent, pending>>
                       /\ resp' = Response("create", t, 500)
    /\ UNCHANGED <<services, config, redelivered, run>>

\* ------------------------------------------------------------------- broker
\* The broker hands out again a message it has delivered and that no task
\* function has finished with yet (a late or lost acknowledgement).
Redeliver(m) ==
    /\ m \in sent \ pending
    /\ \E r \in RunIds : run[r].task = m.task /\ run[r].pc \notin {"done", "failed"}
    /\ redelivered < MaxRedeliveries
    /\ redelivered' = redelivered + 1
    /\ pending' = pending \cup {m}
    /\ UNCHANGED <<services, config, podcasts, tasks, sent, run, resp>>

\* --------------------------------------------------- generate_podcast_script
\* A faulty variant of FailTask: the rows are selected by podcast_id instead
\* of task_id, so every task of the podcast is marked failed.
FailTaskOfPodcast(tbl, t, msg) ==
    [i \in DOMAIN tbl |->
        IF tbl[i].podcast = tbl[t].podcast
        THEN [tbl[i] EXCEPT !.status = STATUS_FAILED, !.error = msg, !.completed = TRUE]
        ELSE tbl[i]]

\* Lines 141-144 and 219-222: what the except block writes to the task row.
FailTask(tbl, t, msg) ==
    [tbl EXCEPT ![t].status = STATUS_FAILED, ![t].error = msg, ![t].completed = TRUE]

\* A faulty variant of CompleteTask: the assignment of progress is missing.
CompleteTaskNoProgress(tbl, t) ==
    [tbl EXCEPT ![t].status = STATUS_COMPLETED, ![t].completed = TRUE]

\* Lines 110-112 and 210-212: what the success path writes to the task row.
CompleteTask(tbl, t) ==
    [tbl EXCEPT ![t].status = STATUS_COMPLETED, ![t].progress = 100,
                ![t].completed = TRUE]

\* Lines 27-28 and 165-166: the claim, written whatever the row's status is.
ClaimTask(tbl, t) ==
    [tbl EXCEPT ![t].status = STATUS_PROCESSING, ![t].started = TRUE]

\* A faulty variant of NoPapers: the check for an empty list is missing.
NoPapersNever(papers) == FALSE

\* Line 86: `if not papers`.
NoPapers(papers) == papers = <<>>

\* Lines 56-60: the papers of the ids that get_paper_by_id finds, in the
\* order of the ids.
FetchByIds(ids, found) == SelectSeq(ids, LAMBDA i : i \in found)

\* A faulty variant of ReRaises: the `not` is missing.
ReRaisesWhenSet(flag) == flag

\* Lines 151 and 228: `if not current_app.config.get(FLAG, False): raise`.
ReRaises(flag) == ~flag

\* Line 147: the message the script task's except block gives the podcast.
ScriptPodcastMessage(msg) == msg

\* A faulty variant of AudioPodcastMessage: the podcast gets str(e) as the
\* script task's except block gives it.
AudioPodcastMessageSame(msg) == msg

\* Line 225: f"Audio generation failed: {str(e)}".
AudioPodcastMessage(msg) == <<"Audio generation failed: ">> \o msg

\* Lines 145-147 and 223-225: what the except block writes to the podcast row.
FailPodcast(tbl, p, msg) ==
    [tbl EXCEPT ![p].status = STATUS_FAILED, ![p].error = msg]

\* Lines 139-152: the except block of generate_podcast_script, entered with
\* the exception text msg and the locals loc.
ScriptExcept(r, loc, msg) ==
    /\ tasks' = IF loc.taskObj THEN FailTask(tasks, loc.task, msg) ELSE tasks
    /\ podcasts' = IF loc.podcastObj
                   THEN FailPodcast(podcasts, loc.podcast, ScriptPodcastMessage(msg))
                   ELSE podcasts
    /\ run' = [run EXCEPT ![r] = [loc EXCEPT !.pc = "failed", !.exc = msg,
                                             !.raised = ReRaises(config)]]

\* The run a call of the task function for task t starts.
NextRun(t) == RunId(t, Cardinality({r \in RunIds : run[r].task = t}) + 1)

\* Lines 23-29: a worker calls the task function with a queued message; it
\* loads the task row, sets it processing and commits.
ScriptClaim(m) ==
    /\ m \in pending
    /\ m.kind = TYPE_SCRIPT_GENERATION
    /\ pending' = pending \ {m}
    /\ tasks' = ClaimTask(tasks, m.task)
    /\ run' = Insert(run, NextRun(m.task),
                     [NewRun(m) EXCEPT !.pc = "claimed", !.taskObj = TRUE])
    /\ UNCHANGED <<services, config, podcasts, sent, redelivered, resp>>

\* Lines 31-38: load the podcast and the user, set the podcast processing, commit.
ScriptLoad(r) ==
    /\ run[r].kind = TYPE_SCRIPT_GENERATION
    /\ run[r].pc = "claimed"
    /\ podcasts' = [podcasts EXCEPT ![run[r].podcast].status = STATUS_PROCESSING]
    /\ run' = [run EXCEPT ![r].pc = "loaded", ![r].podcastObj = TRUE,
                          ![r].progress = Reported(run[r].kind, 1)]
    /\ UNCHANGED <<services, config, tasks, sent, pending, redelivered, resp>>

\* Lines 43-123: fetch the papers (search_papers returns a result list or
\* raises; get_paper_by_id never raises and finds the ids in found), have
\* GeminiService.generate_script compose the script (it returns or raises),
\* then one commit adds the PodcastScript row, marks the task completed and
\* adds the queued audio task row (a fresh uuid).
ScriptGenerate(r, searchOk, result, found, composeOk) ==
    /\ run[r].kind = TYPE_SCRIPT_GENERATION
    /\ run[r].pc = "loaded"
    /\ LET papers == IF run[r].usePrefs THEN result
                     ELSE FetchByIds(run[r].ids, found)
           loc == [run[r] EXCEPT !.papers = papers]
       IN IF run[r].usePrefs /\ ~searchOk
          THEN ScriptExcept(r, run[r], MsgSearch)
          ELSE IF ~run[r].usePrefs /\ run[r].ids = <<>>
          THEN ScriptExcept(r, run[r], MsgNoSource)
          ELSE IF NoPapers(papers)
          THEN ScriptExcept(r, loc, MsgNoPapers)
          ELSE IF ~composeOk
          THEN ScriptExcept(r, [loc EXCEPT !.progress = Reported(loc.kind, 2)],
                            MsgCompose)
          ELSE LET audio == TaskId(loc.podcast, r.n)
               IN /\ podcasts' = [podcasts EXCEPT ![loc.podcast].scripts = @ + 1]
                  /\ tasks' = Insert(CompleteTask(tasks, loc.task), audio,
                                     NewTask(loc.podcast, TYPE_AUDIO_GENERATION, r))
                  /\ run' = [run EXCEPT ![r] =
                                [loc EXCEPT !.pc = "persisted", !.child = audio,
                                            !.progress = Reported(loc.kind, 3)]]
    /\ UNCHANGED <<services, config, sent, pending, redelivered, resp>>

\* Lines 125-137: generate_podcast_audio.delay returns or raises; the commit
\* of line 133 writes nothing (metadata is no column of generation_tasks).
ScriptEnqueue(r, ok) ==
    /\ run[r].kind = TYPE_SCRIPT_GENERATION
    /\ run[r].pc = "persisted"
    /\ IF ok
       THEN LET m == AudioMessage(run[r].child, run[r].podcast)
            IN /\ sent' = sent \cup {m}
               /\ pending' = pending \cup {m}
               /\ run' = [run EXCEPT ![r].pc = "done",
                                     ![r].progress = Reported(run[r].kind, 4)]
               /\ UNCHANGED <<podcasts, tasks>>
       ELSE /\ ScriptExcept(r, run[r], MsgBroker)
            /\ UNCHANGED <<sent, pending>>
    /\ UNCHANGED <<services, config, redelivered, resp>>

\* ---------------------------------------------------- generate_podcast_audio
\* Lines 217-229: the except block of generate_podcast_audio, entered with
\* the exception text msg and the locals loc.
AudioExcept(r, loc, msg) ==
    /\ tasks' = IF loc.taskObj THEN FailTask(tasks, loc.task, msg) ELSE tasks
    /\ podcasts' = IF loc.podcastObj
                   THEN FailPodcast(podcasts, loc.podcast, AudioPodcastMessage(msg))
                   ELSE podcasts
    /\ run' = [run EXCEPT ![r] = [loc EXCEPT !.pc = "failed", !.exc = msg,
                                             !.raised = ReRaises(config)]]

\* Lines 160-167: a worker calls the task function with a queued message; it
\* loads the task row, sets it processing and commits.
AudioClaim(m) ==
    /\ m \in pending
    /\ m.kind = TYPE_AUDIO_GENERATION
    /\ pending' = pending \ {m}
    /\ tasks' = ClaimTask(tasks, m.task)
    /\ run' = Insert(run, NextRun(m.task),
                     [NewRun(m) EXCEPT !.pc = "claimed", !.taskObj = TRUE])
    /\ UNCHANGED <<services, config, podcasts, sent, redelivered, resp>>

\* app/services/storage_service.py upload_audio: the reference names the
\* bucket path built from the filename, which carries the podcast id and the
\* time of the call (the run stands for the time).
UploadReference(p, r) == <<"gs://podcast-audio-storage/audio/podcast_", p, r>>

\* Lines 169-215: load the podcast (raise when it has no script), have
\* TTSService.generate_audio render the script and StorageService.upload_audio
\* store the bytes (each returns or raises), then one commit adds the
\* PodcastAudio row with the returned reference and marks the podcast and the
\* task completed.
AudioGenerate(r, ttsOk, uploadOk) ==
    /\ run[r].kind = TYPE_AUDIO_GENERATION
    /\ run[r].pc = "claimed"
    /\ LET loaded == [run[r] EXCEPT !.podcastObj = TRUE]
           called == [loaded EXCEPT !.tts = TRUE,
                                    !.progress = Reported(loaded.kind, 1)]
           synthesized == [called EXCEPT !.progress = Reported(loaded.kind, 2)]
           url == UploadReference(run[r].podcast, r)
       IN IF podcasts[run[r].podcast].scripts = 0
          THEN AudioExcept(r, loaded, MsgNoScript)
          ELSE IF ~ttsOk
          THEN AudioExcept(r, called, MsgTTS)
          ELSE IF ~uploadOk
          THEN AudioExcept(r, synthesized, MsgUpload)
          ELSE /\ podcasts' = [podcasts EXCEPT
                                  ![run[r].podcast].status = STATUS_COMPLETED,
                                  ![run[r].podcast].completed = TRUE,
                                  ![run[r].podcast].error = NoMessage,
                                  ![run[r].podcast].audio = Append(@, url)]
               /\ tasks' = CompleteTask(tasks, run[r].task)
               /\ run' = [run EXCEPT ![r] =
                             [called EXCEPT !.pc = "done", !.url = url,
                                            !.progress = Reported(loaded.kind, 4)]]
    /\ UNCHANGED <<services, config, sent, pending, redelivered, resp>>

\* ---------------------------------------------------------------- cancel_task
\* A faulty variant of Cancellable: a completed task passes the check too.
CancellableOrCompleted(status) ==
    status \in {STATUS_QUEUED, STATUS_PROCESSING, STATUS_COMPLETED}

\* Line 60: the states a task can be cancelled in.
Cancellable(status) == status \in {STATUS_QUEUED, STATUS_PROCESSING}

\* app/api/tasks.py cancel_task, called by the task's owner.  Line 64 reads
\* task.metadata, which is no column of generation_tasks: nothing is revoked.
\* Line 69 changes the loaded object only; line 70 needs datetime, and the
\* except block's rollback (line 85) needs db.  Only the commit of line 77
\* writes the session's changes to the tables; without it the request ends
\* in a 500 response and the session is discarded.
CancelTask(t) ==
    /\ t \in TaskIds
    /\ IF ~Cancellable(tasks[t].status)
       THEN /\ resp' = Response("cancel", t, 400)
            /\ UNCHANGED <<podcasts, tasks>>
       ELSE IF DatetimeImported /\ DbImported
            THEN /\ tasks' = [tasks EXCEPT ![t].status = STATUS_CANCELLED,
                                           ![t].completed = TRUE]
                 /\ podcasts' = [podcasts EXCEPT
                                    ![tasks[t].podcast].status = STATUS_CANCELLED,
                                    ![tasks[t].podcast].error = MsgCancelled]
                 /\ resp' = Response("cancel", t, 200)
            ELSE /\ resp' = Response("cancel", t, 500)
                 /\ UNCHANGED <<podcasts, tasks>>
    /\ UNCHANGED <<services, config, sent, pending, redelivered, run>>

\* ----------------------------------------------------------- regenerate_audio
MsgRegenerate == <<"Audio regeneration failed.">>

\* The uuid regenerate_audio draws for the k-th audio task it adds to the
\* podcast: no draw of a script run (by >= 1) or of create_podcast (by = 0).
RegeneratedTask(podcast, k) == TaskId(podcast, 0 - k)
Regenerations(podcast) ==
    Cardinality({t \in TaskIds : tasks[t].podcast = podcast /\ t.by < 0})

\* app/api/podcasts.py regenerate_audio, called by the podcast's owner;
\* brokerOk is whether generate_podcast_audio.delay returns.  Lines 204-205
\* set the podcast processing and commit (error_message is left as it is),
\* lines 207-216 add the queued audio task row and commit, line 218 sends
\* the message; the except block of lines 234-242 fails the podcast when it
\* is still processing and leaves the task row.
RegenerateAudio(p, brokerOk) ==
    /\ IF p \notin PodcastIds
       THEN /\ resp' = Response("regenerate", NoTask, 404)
            /\ UNCHANGED <<podcasts, tasks, sent, pending>>
       ELSE IF podcasts[p].scripts = 0
       THEN /\ resp' = Response("regenerate", NoTask, 400)
            /\ UNCHANGED <<podcasts, tasks, sent, pending>>
       ELSE LET t == RegeneratedTask(p, Regenerations(p) + 1)
                m == AudioMessage(t, p)
            IN /\ tasks' = Insert(tasks, t, NewTask(p, TYPE_AUDIO_GENERATION, NoRun))
               /\ IF brokerOk
                  THEN /\ podcasts' = [podcasts EXCEPT ![p].status = STATUS_PROCESSING]
                       /\ sent' = sent \cup {m}
                       /\ pending' = pending \cup {m}
                       /\ resp' = Response("regenerate", t, 200)
                  ELSE /\ podcasts' = FailPodcast(podcasts, p, MsgRegenerate)
                       /\ UNCHANGED <<sent, pending>>
                       /\ resp' = Response("regenerate", NoTask, 500)
    /\ UNCHANGED <<services, config, redelivered, run>>

\* A faulty variant of Flushed: the UPDATE names every assigned column.
FlushedWhole(row, seen, status, error) ==
    [row EXCEPT !.status = status, !.error = error]

\* The session's flush: the UPDATE of a row names the columns whose value
\* differs from the one the session loaded, so a column that another
\* session has changed since keeps that session's value when this session
\* assigns it the value it had loaded.
Flushed(row, seen, status, error) ==
    [row EXCEPT !.status = IF status = seen.status THEN @ ELSE status,
                !.error = IF error = seen.error THEN @ ELSE error]

\* generate_podcast_audio lines 169-171, on their own: the session loads the
\* podcast row and its script, and raises when there is none.
AudioLoad(r) ==
    /\ run[r].kind = TYPE_AUDIO_GENERATION
    /\ run[r].pc = "claimed"
    /\ LET p == run[r].podcast
           loaded == [run[r] EXCEPT !.podcastObj = TRUE,
                                    !.seen = [status |-> podcasts[p].status,
                                              error |-> podcasts[p].error]]
       IN IF podcasts[p].scripts = 0
          THEN AudioExcept(r, loaded, MsgNoScript)
          ELSE /\ run' = [run EXCEPT ![r] = [loaded EXCEPT !.pc = "rendering"]]
               /\ UNCHANGED <<podcasts, tasks>>
    /\ UNCHANGED <<services, config, sent, pending, redelivered, resp>>

\* generate_podcast_audio lines 173-229, on their own: the rendering and the
\* upload (each returns or raises) and the commit of the success path or of
\* the except block, which flushes the podcast row the session loaded in
\* AudioLoad.
AudioCommit(r, ttsOk, uploadOk) ==
    /\ run[r].kind = TYPE_AUDIO_GENERATION
    /\ run[r].pc = "rendering"
    /\ LET p == run[r].podcast
           called == [run[r] EXCEPT !.tts = TRUE,
                                    !.progress = Reported(run[r].kind, 1)]
           synthesized == [called EXCEPT !.progress = Reported(run[r].kind, 2)]
           msg == IF ~ttsOk THEN MsgTTS ELSE MsgUpload
           url == UploadReference(p, r)
       IN IF ~ttsOk \/ ~uploadOk
          THEN /\ tasks' = FailTask(tasks, run[r].task, msg)
               /\ podcasts' = [podcasts EXCEPT ![p] =
                                  Flushed(@, run[r].seen, STATUS_FAILED,
                                          AudioPodcastMessage(msg))]
               /\ run' = [run EXCEPT ![r] =
                             [(IF ttsOk THEN synthesized ELSE called) EXCEPT
                                 !.pc = "failed", !.exc = msg,
                                 !.raised = ReRaises(config)]]
          ELSE /\ podcasts' = [podcasts EXCEPT ![p] =
                                  [Flushed(@, run[r].seen, STATUS_COMPLETED,
                                           NoMessage)
                                      EXCEPT !.completed = TRUE,
                                             !.audio = Append(@, url)]]
               /\ tasks' = CompleteTask(tasks, run[r].task)
               /\ run' = [run EXCEPT ![r] =
                             [called EXCEPT !.pc = "done", !.url = url,
                                            !.progress = Reported(run[r].kind, 4)]]
    /\ UNCHANGED <<services, config, sent, pending, redelivered, resp>>

\* ------------------------------------------------------------ retried calls
\* One call of search_papers, _handle_rate_limit_internally, get_paper_by_id
\* or TTSClient.synthesize_speech, cut at every call of the remote client and
\* at every time.sleep().
FN_SEARCH == "search_papers"
FN_HANDLER == "_handle_rate_limit_internally"
FN_FETCH == "get_paper_by_id"
FN_RETRY == "_retry_with_backoff"
FN_SPEECH == "synthesize_speech"
ServiceFunctions == {FN_SEARCH, FN_HANDLER, FN_FETCH, FN_RETRY, FN_SPEECH}

\* What a call of the remote client does: it returns, or raises one of these.
OK == "ok"
EMPTY == "no result"
E429 == "HTTPError 429"
EHTTP == "HTTPError 500"
ECONN == "ConnectionResetError"
EOTHER == "ValueError"
EAPI == "GoogleAPIError"
\* The errors the retrying code raises itself.
ERECOVER == "HTTPError 429 Failed to recover from rate limiting after internal retries."
EGIVEUP == "Exception Failed to synthesize speech after maximum retries"

\* ArxivService.rate_limit_max_retries_internal, the default of max_retries
\* of _retry_with_backoff, TTSClient.MAX_RETRIES.
rate_limit_max_retries_internal == 2
max_retries == 3
MAX_RETRIES == 3

\* The outcomes of one call of the client, per function.
Outcomes(fn) ==
    CASE fn = FN_SEARCH -> {OK, E429, EHTTP, ECONN, EOTHER}
      [] fn = FN_HANDLER -> {OK, E429, EHTTP, ECONN, EOTHER}
      [] fn = FN_FETCH -> {OK, EMPTY, E429, EHTTP, ECONN, EOTHER}
      [] fn = FN_RETRY -> {OK, EMPTY, E429, EHTTP, ECONN, EOTHER}
      [] fn = FN_SPEECH -> {OK, EAPI, EOTHER}

\* The retry limits a call can run with: the attribute of ArxivService is
\* set per instance, max_retries is an argument of _retry_with_backoff that
\* get_paper_by_id leaves at its default, and MAX_RETRIES is fixed.
Limits(fn) ==
    CASE fn = FN_SEARCH -> (1..MaxRetryLimit) \cup {rate_limit_max_retries_internal}
      [] fn = FN_HANDLER -> (1..MaxRetryLimit) \cup {rate_limit_max_retries_internal}
      [] fn = FN_FETCH -> {max_retries}
      [] fn = FN_RETRY -> (1..MaxRetryLimit) \cup {max_retries}
      [] fn = FN_SPEECH -> {MAX_RETRIES}

\* An entry of the trace: a call of the operation, of the probe, or a sleep.
Event(call, out) == [call |-> call, out |-> out]
Slept == Event("sleep", "-")

\* return value / raise e
Returns(s, value) == [s EXCEPT !.pc = "done", !.result = "returned", !.value = value]
Raises(s, e) == [s EXCEPT !.pc = "done", !.result = "raised", !.err = e]

\* The call of a service method starts.
CallService(fn, limit) ==
    /\ svc.pc = "idle"
    /\ svc' = [NoCall EXCEPT !.fn = fn, !.limit = limit,
                             !.pc = IF fn = FN_HANDLER THEN "sleep" ELSE "op"]
    /\ UNCHANGED <<pipeline, fetch, render, voice, store>>

\* search_papers gives up when _retry_count reached the limit (line 141).
RetriesExhaustedEarly(count, limit) == count + 1 >= limit
RetriesExhausted(count, limit) == count >= limit

\* One pass of search_papers: the client is called; a rate limit below the
\* limit enters _handle_rate_limit_internally, any other error is re-raised.
SearchPapers(out) ==
    /\ svc.fn = FN_SEARCH
    /\ svc.pc = "op"
    /\ LET s == [svc EXCEPT !.trace = Append(@, Event("operation", out)),
                            !.last = IF out = OK THEN @ ELSE out]
       IN  svc' = IF out = OK THEN Returns(s, "papers")
                  ELSE IF out # E429 THEN Raises(s, out)
                  ELSE IF RetriesExhausted(s.count, s.limit) THEN Raises(s, out)
                  ELSE IF s.limit > 0 THEN [s EXCEPT !.pc = "sleep", !.i = 0]
                  ELSE Raises(s, ERECOVER)
    /\ UNCHANGED <<pipeline, fetch, render, voice, store>>

\* _handle_rate_limit_internally, line 76: time.sleep(delay).
HandlerSleep ==
    /\ svc.fn \in {FN_SEARCH, FN_HANDLER}
    /\ svc.pc = "sleep"
    /\ svc' = [svc EXCEPT !.trace = Append(@, Slept), !.pc = "probe"]
    /\ UNCHANGED <<pipeline, fetch, render, voice, store>>

\* search_papers calls itself with _retry_count + 1 (lines 146-153).
RetryCountKept(count) == count
RetryCountAfter(count) == count + 1

\* The loop of _handle_rate_limit_internally is over after this probe.
LastProbeLate(i, limit) == i >= limit
LastProbe(i, limit) == i + 1 >= limit

\* _handle_rate_limit_internally, lines 78-99: the probe. A successful probe
\* returns (search_papers then calls itself with _retry_count + 1), a rate
\* limit goes round the loop, any other error is re-raised.
HandlerProbe(out) ==
    /\ svc.fn \in {FN_SEARCH, FN_HANDLER}
    /\ svc.pc = "probe"
    /\ LET s == [svc EXCEPT !.trace = Append(@, Event("probe", out)),
                            !.last = IF out = OK THEN @ ELSE out]
       IN  svc' = IF out = OK
                  THEN IF s.fn = FN_SEARCH
                       THEN [s EXCEPT !.pc = "op", !.count = RetryCountAfter(@)]
                       ELSE Returns(s, "None")
                  ELSE IF out # E429 THEN Raises(s, out)
                  ELSE IF LastProbe(s.i, s.limit) THEN Raises(s, ERECOVER)
                  ELSE [s EXCEPT !.pc = "sleep", !.i = @ + 1]
    /\ UNCHANGED <<pipeline, fetch, render, voice, store>>

\* The errors _retry_with_backoff catches to retry (line 214): HTTPError is
\* a subclass of URLError.
Retryable(e) == e \in {ECONN, E429, EHTTP}

\* A faulty variant of LastAttempt: the test is one attempt late.
LastAttemptLate(attempt, limit) == attempt = limit

\* _retry_with_backoff line 212: attempt == max_retries - 1.
LastAttempt(attempt, limit) == attempt = limit - 1

\* One attempt of _retry_with_backoff(func, max_retries), called on its own
\* or by get_paper_by_id as _retry_with_backoff(_fetch_paper).  What
\* _retry_with_backoff raises, get_paper_by_id logs and turns into None.
FetchPaper(out) ==
    /\ svc.fn \in {FN_FETCH, FN_RETRY}
    /\ svc.pc = "op"
    /\ LET s == [svc EXCEPT !.trace = Append(@, Event("operation", out)),
                            !.last = IF out \in {OK, EMPTY} THEN @ ELSE out]
       IN  svc' = IF out = OK THEN Returns(s, "paper")
                  ELSE IF out = EMPTY THEN Returns(s, "None")
                  ELSE IF Retryable(out) /\ ~LastAttempt(s.count, s.limit)
                  THEN [s EXCEPT !.pc = "sleep"]
                  ELSE IF s.fn = FN_RETRY THEN Raises(s, out)
                  ELSE Returns(s, "None")
    /\ UNCHANGED <<pipeline, fetch, render, voice, store>>

\* _retry_with_backoff, lines 219-220: time.sleep(wait_time), next attempt.
BackoffSleep ==
    /\ svc.fn \in {FN_FETCH, FN_RETRY}
    /\ svc.pc = "sleep"
    /\ svc' = [svc EXCEPT !.trace = Append(@, Slept), !.pc = "op",
                          !.count = @ + 1]
    /\ UNCHANGED <<pipeline, fetch, render, voice, store>>

\* TTSClient.synthesize_speech: one pass of the while loop up to the sleep.
SynthesizeSpeech(out) ==
    /\ svc.fn = FN_SPEECH
    /\ svc.pc = "op"
    /\ LET s == [svc EXCEPT !.trace = Append(@, Event("operation", out)),
                            !.last = IF out = OK THEN @ ELSE out]
       IN  svc' = IF out = OK THEN Returns(s, "audio_content")
                  ELSE IF out = EAPI
                  THEN [s EXCEPT !.pc = "sleep", !.count = @ + 1]
                  ELSE Raises(s, out)
    /\ UNCHANGED <<pipeline, fetch, render, voice, store>>

\* The loop test of synthesize_speech: while retries < self.MAX_RETRIES.
StillRetryingOneMore(retries, limit) == retries <= limit
StillRetrying(retries, limit) == retries < limit

\* TTSClient.synthesize_speech: time.sleep(delay), then the loop test; after
\* the loop the generic exception is raised.
SynthesizeSleep ==
    /\ svc.fn = FN_SPEECH
    /\ svc.pc = "sleep"
    /\ LET s == [svc EXCEPT !.trace = Append(@, Slept)]
       IN  svc' = IF StillRetrying(s.count, s.limit) THEN [s EXCEPT !.pc = "op"]
                  ELSE Raises(s, EGIVEUP)
    /\ UNCHANGED <<pipeline, fetch, render, voice, store>>

\* ----------------------------------------------------------- paper fetching
\* Lines 43-98 of generate_podcast_script, cut at every call of
\* get_paper_by_id: the choice of the paper source, the loop over paper_ids,
\* the "no papers" test and the call of the composer.
IdLists ==
    UNION {[1..n -> {"paper_id_A", "paper_id_B"}] : n \in 0..MaxIds}

\* What get_paper_by_id returns: the processed paper, or None.
Paper(id) == <<"paper", id>>
None == <<>>

\* Lines 58-60: if paper: temp_papers_list.append(paper).
AppendAlways(list, paper) == Append(list, paper)
AppendIfFound(list, paper) == IF paper # None THEN Append(list, paper) ELSE list

\* The user_preferences row of the user of a script job: no row ({}), or the
\* row with the columns that search_papers is given.
SearchPreferences ==
    {{}} \cup {{[topics |-> topics, categories |-> categories,
                 authors |-> authors, max_results |-> max_results,
                 days_back |-> 30, sort_by |-> sort_by]} :
                  topics \in Lists, categories \in Lists, authors \in Lists,
                  max_results \in {3, 10},
                  sort_by \in {"relevance", "lastUpdatedDate"}}

\* A faulty variant of SearchCall: max_results is not capped.
SearchCallUncapped(row) ==
    [topics |-> row.topics, categories |-> row.categories,
     authors |-> row.authors, max_results |-> row.max_results,
     days_back |-> row.days_back, sort_by_preference |-> row.sort_by]

\* Lines 47-54: the keyword arguments of the call of search_papers.
SearchCall(row) ==
    [topics |-> row.topics, categories |-> row.categories,
     authors |-> row.authors,
     max_results |-> IF row.max_results < 5 THEN row.max_results ELSE 5,
     days_back |-> row.days_back, sort_by_preference |-> row.sort_by]

\* Lines 46-55 and 81-82: the paper source. With use_preferences and a
\* preferences row, search_papers is called and returns its result list or
\* raises; else an id list enters the loop; with neither the job raises.
FetchStart(preferences, use_preferences, ids, searchOk, result) ==
    /\ fetch.pc = "idle"
    /\ LET usePrefs == use_preferences /\ preferences # {}
           f == [NoFetch EXCEPT !.use_preferences = use_preferences,
                                !.preferences = preferences,
                                !.usePrefs = usePrefs, !.ids = ids]
           searched == [f EXCEPT !.searches =
                           <<SearchCall(CHOOSE row \in preferences : TRUE)>>]
       IN  fetch' = IF usePrefs
                    THEN IF searchOk
                         THEN [searched EXCEPT !.pc = "fetched",
                                               !.temp_papers_list = result,
                                               !.fetched_papers_data = TRUE]
                         ELSE [searched EXCEPT !.pc = "done", !.exc = MsgSearch]
                    ELSE IF ids # <<>> THEN [f EXCEPT !.pc = "loop"]
                    ELSE [f EXCEPT !.pc = "done", !.exc = MsgNoSource]
    /\ UNCHANGED <<pipeline, svc, render, voice, store>>

\* Lines 57-80: one pass of the loop. fetched_papers_data is bound to the
\* list object itself once the list is not empty, so later appends show in it.
GetPaperById(paper) ==
    /\ fetch.pc = "loop"
    /\ LET id == fetch.ids[Len(fetch.calls) + 1]
           list == AppendIfFound(fetch.temp_papers_list, paper)
       IN  /\ paper \in {Paper(id), None}
           /\ fetch' = [fetch EXCEPT
                  !.calls = Append(@, id),
                  !.found = Append(@, paper # None),
                  !.temp_papers_list = list,
                  !.fetched_papers_data = @ \/ list # <<>>,
                  !.pc = IF Len(fetch.calls) + 1 = Len(fetch.ids)
                         THEN "fetched" ELSE "loop"]
    /\ UNCHANGED <<pipeline, svc, render, voice, store>>

\* Lines 84-98: papers is the fetched list or []; without papers the job
\* raises, else the composer is called with them and returns or raises.
ComposeScript(composeOk) ==
    /\ fetch.pc = "fetched"
    /\ LET papers == IF fetch.fetched_papers_data THEN fetch.temp_papers_list
                     ELSE <<>>
       IN  fetch' = IF NoPapers(papers)
                    THEN [fetch EXCEPT !.pc = "done", !.exc = MsgNoPapers]
                    ELSE [fetch EXCEPT !.pc = "done", !.papers = papers,
                                       !.composed = TRUE,
                                       !.exc = IF composeOk THEN NoMessage
                                               ELSE MsgCompose]
    /\ UNCHANGED <<pipeline, svc, render, voice, store>>

\* ---------------------------------------------------------------------------- rendering
\* A text is a sequence of characters. The texts of the segments: empty,
\* whitespace only, markup only, plain, and plain inside markup.
Texts ==
    {<<>>, <<" ">>, <<"*", "*">>, <<"H", "i">>, <<"*", "H", "i", "*">>}

\* A script is drawn as a sequence of at most MaxItems items, each the start
\* of a section or the text of a segment of the section started last.
SectionStart == <<"section">>
ItemLists ==
    UNION {{t \in [1..n -> Texts \cup {SectionStart}] :
               n > 0 => t[1] = SectionStart} : n \in 0..MaxItems}

\* script["sections"], each section the sequence of the texts of its segments.
RECURSIVE SectionsOf(_)
SectionsOf(items) ==
    IF items = <<>> THEN <<>>
    ELSE LET last == items[Len(items)]
             before == SectionsOf(SubSeq(items, 1, Len(items) - 1))
         IN  IF last = SectionStart THEN Append(before, <<>>)
             ELSE [before EXCEPT ![Len(before)] = Append(@, last)]

\* str.strip(): leading and trailing whitespace removed.
RECURSIVE strip(_)
strip(text) ==
    IF text = <<>> THEN text
    ELSE IF Head(text) = " " THEN strip(Tail(text))
    ELSE IF text[Len(text)] = " " THEN strip(SubSeq(text, 1, Len(text) - 1))
    ELSE text

\* TTSService._clean_text: the characters * _ [ ] ( ) removed, then strip().
_clean_text(text) ==
    strip(SelectSeq(text, LAMBDA c : c \notin {"*", "_", "[", "]", "(", ")"}))

\* ScriptParser._enhance_with_ssml: the text inside <speak> and <prosody>.
_enhance_with_ssml(text) ==
    <<"<speak>", "<prosody>">> \o text \o <<"</prosody>", "</speak>">>

\* The entries of a list of segments: a speech, or a pause of duration
\* milliseconds that is a section break or not.
Speech(text) ==
    [type |-> "speech", text |-> text, duration |-> 0, section_break |-> FALSE]
Pause(duration, section_break) ==
    [type |-> "pause", text |-> <<>>, duration |-> duration,
     section_break |-> section_break]
\* What _combine_audio_segments appends for a section break that it replaces.
Transition ==
    [type |-> "transition", text |-> <<>>, duration |-> 0, section_break |-> TRUE]

\* parse_script, lines 406-407: `if not text.strip(): continue`.
NeverBlank(text) == FALSE
Blank(text) == strip(text) = <<>>

\* parse_script, lines 401-427: the segments of one section appended.
RECURSIVE ParseSegments(_, _, _)
ParseSegments(section_segments, segments, enable_ssml) ==
    IF section_segments = <<>> THEN segments
    ELSE LET text == Head(section_segments)
         IN  IF Blank(text)
             THEN ParseSegments(Tail(section_segments), segments, enable_ssml)
             ELSE ParseSegments(Tail(section_segments),
                      segments \o <<Speech(IF enable_ssml
                                           THEN _enhance_with_ssml(text)
                                           ELSE text),
                                    Pause(500, FALSE)>>,
                      enable_ssml)

\* parse_script, lines 387-429: a section-break pause before a section when
\* the list is not empty (line 392), then the section's segments.
RECURSIVE parse_script(_, _, _)
parse_script(sections, segments, enable_ssml) ==
    IF sections = <<>> THEN segments
    ELSE parse_script(Tail(sections),
             ParseSegments(Head(sections),
                 IF Len(segments) > 0
                 THEN Append(segments, Pause(1000, TRUE)) ELSE segments,
                 enable_ssml),
             enable_ssml)

\* A faulty variant of process_segments: the failed speeches are kept.
process_segments_all(segments, skipped) == segments

\* process_segments, lines 577-626: an audio file per pause and per speech
\* that has a voice and whose synthesis returned; the other speeches (those
\* at the positions in skipped) are left out.
process_segments(segments, skipped) ==
    LET kept == {i \in 1..Len(segments) :
                    segments[i].type = "speech" => i \notin skipped}
        RECURSIVE Files(_)
        Files(i) ==
            IF i = 0 THEN <<>>
            ELSE IF i \in kept THEN Append(Files(i - 1), segments[i])
            ELSE Files(i - 1)
    IN  Files(Len(segments))

\* _combine_audio_segments, lines 694-696: the entry at position i (from 1)
\* is a section break that the transition replaces.
ReplacedNever(segments, i, add_transitions) == FALSE
Replaced(segments, i, add_transitions) ==
    /\ segments[i].type = "pause"
    /\ segments[i].section_break
    /\ add_transitions
    /\ i - 1 > 0
    /\ i - 1 < Len(segments) - 1

\* _combine_audio_segments, lines 691-715: a section break that is neither
\* first nor last is replaced by the transition when transitions are on;
\* every other entry is appended as it is.
\* A faulty variant of CombineFrom: the files appended last to first.
CombineBackwards(segments, i, add_transitions) ==
    [k \in 1..Len(segments) |-> segments[Len(segments) + 1 - k]]

RECURSIVE CombineFrom(_, _, _)
CombineFrom(segments, i, add_transitions) ==
    IF i > Len(segments) THEN <<>>
    ELSE (IF Replaced(segments, i, add_transitions)
          THEN <<Transition>> ELSE <<segments[i]>>)
             \o CombineFrom(segments, i + 1, add_transitions)

\* TTSService.generate_audio, lines 60-83: for every segment, of every
\* section, whose text is not empty, before and after cleaning: the
\* synthesized speech of the cleaned text and a pause of 500 ms.
RECURSIVE generate_audio(_)
generate_audio(texts) ==
    IF texts = <<>> THEN <<>>
    ELSE LET text == Head(texts)
         IN  (IF text = <<>> \/ _clean_text(text) = <<>> THEN <<>>
              ELSE <<Speech(_clean_text(text)), Pause(500, FALSE)>>)
                 \o generate_audio(Tail(texts))

\* The segments of all sections, in order.
RECURSIVE Flatten(_)
Flatten(sections) ==
    IF sections = <<>> THEN <<>> ELSE Head(sections) \o Flatten(Tail(sections))

MsgNoAudioFiles == <<"No audio files to combine">>
MsgNoAudioSegments == <<"No audio segments generated">>
MsgTransition == <<"transition effect failed">>

\* The positions of the speeches in a list of segments.
SpeechPositions(segments) ==
    {i \in 1..Len(segments) : segments[i].type = "speech"}

\* A script is handed to a renderer.
LoadScript(items) ==
    /\ render.pc = "idle"
    /\ render' = [NoRender EXCEPT !.pc = "script", !.sections = SectionsOf(items)]
    /\ UNCHANGED <<pipeline, svc, fetch, voice, store>>

\* ScriptParser.parse_script.
ParseScript(enable_ssml) ==
    /\ render.pc = "script"
    /\ render' = [render EXCEPT !.pc = "parsed", !.by = "AudioProcessor",
                     !.enable_ssml = enable_ssml,
                     !.segments = parse_script(render.sections, <<>>, enable_ssml)]
    /\ UNCHANGED <<pipeline, svc, fetch, voice, store>>

\* AudioProcessor.process_segments up to the call of _combine_audio_segments:
\* the speeches at the positions in skipped have no voice or their synthesis
\* raised, the others are synthesized.
ProcessSegments(skipped) ==
    /\ render.pc = "parsed"
    /\ render' = [render EXCEPT !.pc = "processed",
                     !.synthesized = SpeechPositions(render.segments) \ skipped,
                     !.skipped = skipped,
                     !.audio_files = process_segments(render.segments, skipped)]
    /\ UNCHANGED <<pipeline, svc, fetch, voice, store>>

\* The length in milliseconds of the audio the synthesizer returns for a
\* text, of the intro and outro jingles, and TTSConfig.transition_duration.
SpeechDuration(text) == 100 * Len(text)
JingleDuration == 2000
transition_duration == 500

\* A faulty variant of Duration: the transition has no length.
DurationNoTransition(segment) ==
    CASE segment.type = "speech" -> SpeechDuration(segment.text)
      [] segment.type = "pause" -> segment.duration
      [] segment.type = "transition" -> 0

\* len() of an entry of the combined audio, in milliseconds: a transition is
\* transition_duration of tone and 800 ms of silence (lines 765-777).
Duration(segment) ==
    CASE segment.type = "speech" -> SpeechDuration(segment.text)
      [] segment.type = "pause" -> segment.duration
      [] segment.type = "transition" -> transition_duration + 800

RECURSIVE TotalDuration(_)
TotalDuration(segments) ==
    IF segments = <<>> THEN 0
    ELSE Duration(Head(segments)) + TotalDuration(Tail(segments))

\* _combine_audio_segments, lines 682-731, as the operations on `combined`
\* in the order they are made: the intro and a pause when there is an intro,
\* the entries, the statement of lines 718-719 (the background music is
\* overlaid when it is enabled and its file is found, which changes no
\* length), the final normalization, a pause and the outro when there is an
\* outro.
MixOperations(combined, intro, outro) ==
    (IF intro THEN <<"intro", "silence">> ELSE <<>>)
        \o [i \in 1..Len(combined) |-> combined[i].type]
        \o <<"background_music", "normalize">>
        \o (IF outro THEN <<"silence", "outro">> ELSE <<>>)

\* The length of the mix: overlaying and normalizing do not change it.
MixDuration(combined, intro, outro) ==
    (IF intro THEN JingleDuration + 500 ELSE 0)
        + TotalDuration(combined)
        + (IF outro THEN 500 + JingleDuration ELSE 0)

\* AudioProcessor._combine_audio_segments: it raises without audio files,
\* and when a transition is needed and _create_section_transition raises.
CombineAudioSegments(add_transitions, transitionOk, intro, outro) ==
    /\ render.pc = "processed"
    /\ LET combined == CombineFrom(render.audio_files, 1, add_transitions)
           r == [render EXCEPT !.pc = "done", !.add_transitions = add_transitions]
       IN  render' = IF render.audio_files = <<>>
                     THEN [r EXCEPT !.exc = MsgNoAudioFiles]
                     ELSE IF ~transitionOk
                             /\ \E i \in 1..Len(combined) : combined[i] = Transition
                     THEN [r EXCEPT !.exc = MsgTransition]
                     ELSE [r EXCEPT !.combined = combined,
                              !.intro = intro, !.outro = outro,
                              !.mix = MixOperations(combined, intro, outro),
                              !.duration = MixDuration(combined, intro, outro)]
    /\ UNCHANGED <<pipeline, svc, fetch, voice, store>>

\* TTSService.generate_audio: it raises ValueError when no segment was left,
\* and what _synthesize_speech raises: the synthesis of the speech at
\* position failed of the list raises (0: none does), those before it
\* returned, those after it are not reached.
GenerateAudio(failed) ==
    /\ render.pc = "script"
    /\ LET audio_segments == generate_audio(Flatten(render.sections))
           speeches == SpeechPositions(audio_segments)
           r == [render EXCEPT !.pc = "done", !.by = "TTSService"]
       IN  /\ failed \in speeches \cup {0}
           /\ render' =
                  IF audio_segments = <<>>
                  THEN [r EXCEPT !.exc = MsgNoAudioSegments]
                  ELSE IF failed # 0
                  THEN [r EXCEPT !.exc = MsgTTS,
                                 !.synthesized = {i \in speeches : i < failed},
                                 !.skipped = {failed}]
                  ELSE [r EXCEPT !.synthesized = speeches,
                                 !.audio_segments = audio_segments,
                                 !.duration = TotalDuration(audio_segments)]
    /\ UNCHANGED <<pipeline, svc, fetch, voice, store>>

\* -------------------------------------------------------------------- voices
\* list(set(...)) of the speakers of a script: the speakers in any order.
SpeakerLists ==
    {<<a>> : a \in ScriptSpeakers}
        \cup {<<pair[1], pair[2]>> :
                  pair \in {q \in ScriptSpeakers \X ScriptSpeakers :
                                q[1] # q[2]}}

GenderPreferences == {"male", "female", "mixed", "none"}

\* VoiceManager.PREMIUM_VOICES.
PREMIUM_VOICES(gender) ==
    IF gender = "MALE"
    THEN <<"en-US-Neural2-D", "en-US-Neural2-J", "en-US-Studio-O",
           "en-GB-Neural2-B", "en-AU-Neural2-B">>
    ELSE <<"en-US-Neural2-F", "en-US-Neural2-G", "en-US-Neural2-E",
           "en-US-Neural2-C", "en-GB-Neural2-A", "en-AU-Neural2-A">>

\* The names recommend_voices knows the gender of.
MaleNames == {"alex", "jordan", "michael", "david", "james"}
FemaleNames == {"alice", "emma", "olivia", "sarah", "emily"}

\* recommend_voices without a preference: the gender of the name, and for
\* another name the gender the previous speaker does not have.
RECURSIVE NameGenders(_, _)
NameGenders(speakers, genders) ==
    IF Len(genders) = Len(speakers) THEN genders
    ELSE LET speaker == speakers[Len(genders) + 1]
             gender ==
                 IF speaker \in MaleNames THEN "MALE"
                 ELSE IF speaker \in FemaleNames THEN "FEMALE"
                 ELSE IF Len(genders) > 0
                      THEN IF genders[Len(genders)] = "MALE" THEN "FEMALE"
                           ELSE "MALE"
                      ELSE "MALE"
         IN  NameGenders(speakers, Append(genders, gender))

\* recommend_voices: the genders of the speakers.
Genders(speakers, gender_preference) ==
    CASE gender_preference = "male" -> [i \in 1..Len(speakers) |-> "MALE"]
      [] gender_preference = "female" -> [i \in 1..Len(speakers) |-> "FEMALE"]
      [] gender_preference = "mixed" ->
             IF Len(speakers) = 2 THEN <<"MALE", "FEMALE">>
             ELSE [i \in 1..Len(speakers) |->
                      IF (i - 1) % 2 = 0 THEN "MALE" ELSE "FEMALE"]
      [] OTHER -> NameGenders(speakers, <<>>)

\* What random.uniform(a, b) can return: here one of the two ends.
Uniform(a, b) == {a, b}

\* recommend_voices: the voice of the speaker at index i (from 0), with the
\* variations rate and pitch drawn for it.
Recommended(gender, i, rate, pitch) ==
    LET premium_voices == PREMIUM_VOICES(gender)
    IN  VoiceConfig(premium_voices[(i % Len(premium_voices)) + 1], gender,
                    100 + (IF i > 0 THEN rate ELSE 0),
                    IF i > 0 THEN pitch ELSE 0)

\* VoiceManager.recommend_voices: every dictionary a call can return.
recommend_voices(speakers, gender_preference) ==
    LET genders == Genders(speakers, gender_preference)
        at(speaker) == CHOOSE i \in 1..Len(speakers) : speakers[i] = speaker
    IN  {[speaker \in AllSpeakers |->
             IF \E i \in 1..Len(speakers) : speakers[i] = speaker
             THEN Recommended(genders[at(speaker)], at(speaker) - 1,
                              rates[at(speaker)], pitches[at(speaker)])
             ELSE NoVoice] :
            rates \in [1..Len(speakers) -> Uniform(-10, 10)],
            pitches \in [1..Len(speakers) -> Uniform(-100, 100)]}

\* TTSService.VOICE_PROFILES.
VOICE_PROFILES ==
    [speaker \in {"alex", "jordan"} |->
        IF speaker = "alex"
        THEN VoiceConfig("en-US-Chirp3-HD-Algenib", "MALE", 105, 0)
        ELSE VoiceConfig("en-US-Chirp3-HD-Aoede", "FEMALE", 100, 0)]

\* The entries of the dictionary of that name.
Entries(name) ==
    IF name = "test" THEN voice.test_voice_config ELSE voice.voice_configs

\* PodcastRenderer.render_podcast on the renderer singleton, to the missing
\* speakers: the speakers of the script, and those of them the renderer has
\* no voice for.
RenderPodcast(p, speakers, gender_preference) ==
    /\ voice.pass[p].pc = "idle"
    /\ LET missing_speakers ==
               SelectSeq(speakers,
                         LAMBDA s : Entries(voice.configs)[s] = NoVoice)
       IN  voice' = [voice EXCEPT !.pass[p] =
               [NoPass EXCEPT !.pc = IF missing_speakers = <<>> THEN "voiced"
                                     ELSE "missing",
                              !.by = "PodcastRenderer",
                              !.speakers = speakers,
                              !.gender_preference = gender_preference,
                              !.missing_speakers = missing_speakers,
                              !.todo = Segments(p, speakers),
                              !.voice_configs = voice.configs]]
    /\ UNCHANGED <<pipeline, svc, fetch, render, store>>

\* render_podcast: the voices recommend_voices returns for the missing
\* speakers are added to the voices of the renderer.
RecommendMissing(p, recommended) ==
    /\ voice.pass[p].pc = "missing"
    /\ recommended \in recommend_voices(voice.pass[p].missing_speakers,
                                        voice.pass[p].gender_preference)
    /\ voice' = [voice EXCEPT
           !.voice_configs =
               IF voice.pass[p].voice_configs = "test" THEN @
               ELSE [speaker \in AllSpeakers |->
                        IF recommended[speaker] # NoVoice
                        THEN recommended[speaker]
                        ELSE @[speaker]],
           !.test_voice_config =
               IF voice.pass[p].voice_configs # "test" THEN @
               ELSE [speaker \in AllSpeakers |->
                        IF recommended[speaker] # NoVoice
                        THEN recommended[speaker]
                        ELSE @[speaker]],
           !.pass[p].pc = "voiced",
           !.pass[p].recommended = recommended]
    /\ UNCHANGED <<pipeline, svc, fetch, render, store>>

\* process_segments, one speech segment: it is skipped if the renderer has no
\* voice for its speaker, and synthesized with the voice of its speaker.
ProcessSpeech(p) ==
    /\ voice.pass[p].pc = "voiced"
    /\ voice.pass[p].by = "PodcastRenderer"
    /\ voice.pass[p].todo # <<>>
    /\ LET speaker == Head(voice.pass[p].todo)
           voice_config == Entries(voice.pass[p].voice_configs)[speaker]
       IN  voice' = [voice EXCEPT
               !.pass[p].todo = Tail(@),
               !.pass[p].used[speaker] =
                   IF voice_config = NoVoice THEN @ ELSE @ \cup {voice_config}]
    /\ UNCHANGED <<pipeline, svc, fetch, render, store>>

\* TTSService.generate_audio of a new TTSService, as the audio task makes one.
ServiceGenerateAudio(p, speakers) ==
    /\ voice.pass[p].pc = "idle"
    /\ voice' = [voice EXCEPT !.pass[p] =
           [NoPass EXCEPT !.pc = "voiced", !.by = "TTSService",
                          !.speakers = speakers,
                          !.todo = Segments(p, speakers)]]
    /\ UNCHANGED <<pipeline, svc, fetch, render, store>>

\* TTSService._synthesize_speech: the profile of the speaker, and the profile
\* of alex for any other speaker.
ServiceSynthesize(p) ==
    /\ voice.pass[p].pc = "voiced"
    /\ voice.pass[p].by = "TTSService"
    /\ voice.pass[p].todo # <<>>
    /\ LET speaker == Head(voice.pass[p].todo)
           voice_profile ==
               IF speaker \in DOMAIN VOICE_PROFILES THEN VOICE_PROFILES[speaker]
               ELSE VOICE_PROFILES["alex"]
       IN  voice' = [voice EXCEPT
               !.pass[p].todo = Tail(@),
               !.pass[p].used[speaker] = @ \cup {voice_profile}]
    /\ UNCHANGED <<pipeline, svc, fetch, render, store>>

\* The renderer returns the audio of the pass.
RenderReturn(p) ==
    /\ voice.pass[p].pc = "voiced"
    /\ voice.pass[p].todo = <<>>
    /\ voice' = [voice EXCEPT !.pass[p] = [NoPass EXCEPT !.pc = "returned"]]
    /\ UNCHANGED <<pipeline, svc, fetch, render, store>>

\* ---------------------------------------------------------------- test_voice
\* The voice names and the genders of the request bodies.
TestVoiceNames == {"en-US-Neural2-F"}
TestGenders == {"male", "female", "neutral", "robot"}

\* Lines 281-284: Gender[gender.upper()], Gender.NEUTRAL for no member.
GenderEnum(gender) ==
    CASE gender = "male" -> "MALE"
      [] gender = "female" -> "FEMALE"
      [] OTHER -> "NEUTRAL"

\* test_voice lines 255-291: the renderer singleton's dictionary is kept in
\* original_configs and replaced by a new one with the voice under test.
TestVoiceOverride(voice_name, gender) ==
    /\ voice.test.pc = "idle"
    /\ voice' = [voice EXCEPT
           !.test = [pc |-> "rendering", original_configs |-> voice.configs],
           !.test_voice_config =
               [NoVoiceConfigs EXCEPT
                   !["test"] = VoiceConfig(voice_name, GenderEnum(gender), 100, 0)],
           !.configs = "test"]
    /\ UNCHANGED <<pipeline, svc, fetch, render, store>>

\* Lines 294-301: the assignment that restores the dictionary follows the
\* call of render_podcast, and is skipped when the call raises.
Restored(ok, configs, original_configs) ==
    IF ok THEN original_configs ELSE configs

\* test_voice lines 293-320: render_podcast returns or raises; the sample is
\* sent, or the except block answers 500.
TestVoiceRender(ok) ==
    /\ voice.test.pc = "rendering"
    /\ voice' = [voice EXCEPT
           !.test.pc = IF ok THEN "returned" ELSE "raised",
           !.configs = Restored(ok, @, voice.test.original_configs)]
    /\ UNCHANGED <<pipeline, svc, fetch, render, store>>

\* ------------------------------------------------------------------ storage
\* A URL or a blob name is the sequence of the pieces between its slashes:
\* "gs://b/audio/f.mp3" is <<"gs:", "", "b", "audio", "f.mp3">>.
GS == <<"gs:", "">>
PUBLIC == <<"https:", "", "storage.googleapis.com">>

\* GCS_BUCKET_NAME of the configuration, 'podcast-audio-storage' without one.
BucketNames == {"podcast-audio-storage", "audio"}

\* The filenames of the audio task (line 188): the podcast id and the time.
Filenames == {"podcast_1_20260101_120000.mp3", "podcast_2_20260101_120001.mp3"}

\* datetime.utcnow().strftime('%Y/%m/%d').
Dates == {<<"2026", "01", "01">>, <<"2026", "01", "02">>}

\* upload_audio line 38: f"audio/{date}/{filename}".
FilePath(date, filename) == <<"audio">> \o date \o <<filename>>

\* upload_audio line 48: f"gs://{self.bucket_name}/{file_path}".
StorageUrl(bucket_name, file_path) == GS \o <<bucket_name>> \o file_path

\* blob.public_url of the client library, as get_audio_info returns it.
PublicUrl(bucket_name, file_path) == PUBLIC \o <<bucket_name>> \o file_path

\* str.startswith(prefix + '/').
StartsWith(url, prefix) ==
    Len(url) > Len(prefix) /\ SubSeq(url, 1, Len(prefix)) = prefix

\* Where f'/{name}/' occurs in the url that starts with piece i: a later
\* piece that is the name and has a slash on either side.
Occurrences(url, name, i) ==
    {j \in (i + 1)..(Len(url) - 1) : url[j] = name}

\* file_url.split(f'/{name}/'): the parts, when the separator occurs.
Least(S) == CHOOSE j \in S : \A k \in S : j <= k
RECURSIVE SplitFrom(_, _, _)
SplitFrom(url, name, i) ==
    IF Occurrences(url, name, i) = {}
    THEN <<SubSeq(url, i, Len(url))>>
    ELSE LET j == Least(Occurrences(url, name, i))
         IN  <<SubSeq(url, i, j - 1)>> \o SplitFrom(url, name, j + 1)
Split(url, name) == SplitFrom(url, name, 1)

\* StorageService._extract_blob_name: parts[1] of the public URL split at the
\* bucket name, None for any other URL.
ExtractBlobName(bucket_name, file_url) ==
    IF StartsWith(file_url, PUBLIC)
    THEN LET parts == Split(file_url, bucket_name)
         IN  IF Len(parts) > 1 THEN parts[2] ELSE None
    ELSE None

\* The references the callers hold of a stored file: the one upload_audio
\* returned (the file_url column of podcast_audio) and the public URL.
References ==
    IF store.file_url = <<>> THEN {}
    ELSE {store.file_url,
          PUBLIC \o SubSeq(store.file_url, Len(GS) + 1, Len(store.file_url))}

\* StorageService.__init__: the bucket of the configuration.
StorageInit(bucket_name) ==
    /\ store.bucket_name = ""
    /\ store' = [store EXCEPT !.bucket_name = bucket_name]
    /\ UNCHANGED <<pipeline, svc, fetch, render, voice>>

\* StorageService.upload_audio; ok is whether upload_from_string returns.
UploadAudio(date, filename, ok) ==
    /\ store.bucket_name # ""
    /\ LET file_path == FilePath(date, filename)
       IN  store' =
               IF ok
               THEN [store EXCEPT
                        !.blobs = @ \cup {file_path},
                        !.file_url = StorageUrl(store.bucket_name, file_path),
                        !.op = "upload_audio", !.outcome = "returned",
                        !.value = StorageUrl(store.bucket_name, file_path)]
               ELSE [store EXCEPT !.op = "upload_audio", !.outcome = "raised",
                                  !.value = <<"upload failed">>]
    /\ UNCHANGED <<pipeline, svc, fetch, render, voice>>

\* StorageService.download_audio: ValueError for a URL without a blob name,
\* and the library's NotFound for a blob that is not in the bucket.
DownloadAudio(file_url) ==
    /\ store.bucket_name # ""
    /\ LET blob_name == ExtractBlobName(store.bucket_name, file_url)
       IN  store' =
               IF blob_name = None
               THEN [store EXCEPT !.op = "download_audio", !.outcome = "raised",
                                  !.value = <<"Invalid file URL">>]
               ELSE IF blob_name \notin store.blobs
               THEN [store EXCEPT !.op = "download_audio", !.outcome = "raised",
                                  !.value = <<"NotFound">>]
               ELSE [store EXCEPT !.op = "download_audio",
                                  !.outcome = "returned", !.value = blob_name]
    /\ UNCHANGED <<pipeline, svc, fetch, render, voice>>

\* StorageService.delete_audio: False for a URL without a blob name and for
\* a blob that is not in the bucket (the except block).
DeleteAudio(file_url) ==
    /\ store.bucket_name # ""
    /\ LET blob_name == ExtractBlobName(store.bucket_name, file_url)
       IN  store' =
               IF blob_name = None \/ blob_name \notin store.blobs
               THEN [store EXCEPT !.op = "delete_audio", !.outcome = "returned",
                                  !.value = <<"False">>]
               ELSE [store EXCEPT !.blobs = @ \ {blob_name},
                                  !.op = "delete_audio", !.outcome = "returned",
                                  !.value = <<"True">>]
    /\ UNCHANGED <<pipeline, svc, fetch, render, voice>>

\* StorageService.get_audio_info: None for a URL without a blob name and
\* for a blob that is not in the bucket.
GetAudioInfo(file_url) ==
    /\ store.bucket_name # ""
    /\ LET blob_name == ExtractBlobName(store.bucket_name, file_url)
       IN  store' =
               IF blob_name = None \/ blob_name \notin store.blobs
               THEN [store EXCEPT !.op = "get_audio_info",
                                  !.outcome = "returned", !.value = <<"None">>]
               ELSE [store EXCEPT !.op = "get_audio_info",
                                  !.outcome = "returned",
                                  !.value = PublicUrl(store.bucket_name, blob_name)]
    /\ UNCHANGED <<pipeline, svc, fetch, render, voice>>

\* ------------------------------------------------------------ specifications
\* The steps of the two task functions, with every outcome of their
\* collaborators.
Workers ==
    \/ \E m \in pending : ScriptClaim(m)
    \/ \E r \in RunIds : ScriptLoad(r)
    \/ \E r \in RunIds, searchOk \in BOOLEAN, result \in SearchResults,
          found \in SUBSET KnownIds, composeOk \in BOOLEAN :
           ScriptGenerate(r, searchOk, result, found, composeOk)
    \/ \E r \in RunIds, ok \in BOOLEAN : ScriptEnqueue(r, ok)
    \/ \E m \in pending : AudioClaim(m)
    \/ \E r \in RunIds, ttsOk \in BOOLEAN, uploadOk \in BOOLEAN :
           AudioGenerate(r, ttsOk, uploadOk)

\* One create_podcast request is followed through: a handler reads and
\* writes no row of another podcast than its own.
Create ==
    \E preferences \in UserPreferences, usePrefs \in BOOLEAN,
       ids \in PaperIdLists, brokerOk \in BOOLEAN :
        podcasts = <<>> /\ CreatePodcast(preferences, usePrefs, ids, brokerOk)

\* The whole system: requests, broker and workers.
Next ==
    \/ Create
    \/ \E m \in sent : Redeliver(m)
    \/ \E t \in TaskIds : CancelTask(t)
    \/ Workers

Spec == Init /\ [][Next]_vars

\* Every collaborator succeeds, the search finds a paper and every requested
\* id is known, each message is delivered once and nobody cancels.
HappyWorkers ==
    \/ \E m \in pending : ScriptClaim(m)
    \/ \E r \in RunIds : ScriptLoad(r)
    \/ \E r \in RunIds, result \in SearchResults \ {<<>>} :
           ScriptGenerate(r, TRUE, result, KnownIds, TRUE)
    \/ \E r \in RunIds : ScriptEnqueue(r, TRUE)
    \/ \E m \in pending : AudioClaim(m)
    \/ \E r \in RunIds : AudioGenerate(r, TRUE, TRUE)

NextHappy ==
    \/ \E preferences \in UserPreferences, usePrefs \in BOOLEAN,
          ids \in PaperIdLists :
           /\ Len(podcasts) < MaxHappyPodcasts
           /\ CreatePodcast(preferences, usePrefs, ids, TRUE)
    \/ HappyWorkers

\* The worker pool runs every delivered task function to its end.
SpecHappy == Init /\ [][NextHappy]_vars /\ WF_vars(HappyWorkers)

\* The retried service calls alone: one call, every outcome of every call of
\* the remote client.
NextRetry ==
    \/ \E fn \in ServiceFunctions : \E limit \in Limits(fn) : CallService(fn, limit)
    \/ \E out \in Outcomes(FN_SEARCH) : SearchPapers(out)
    \/ HandlerSleep
    \/ \E out \in Outcomes(FN_HANDLER) : HandlerProbe(out)
    \/ \E out \in Outcomes(FN_FETCH) : FetchPaper(out)
    \/ BackoffSleep
    \/ \E out \in Outcomes(FN_SPEECH) : SynthesizeSpeech(out)
    \/ SynthesizeSleep

\* A started call is run on: the calling thread is never suspended for good.
SpecRetry == Init /\ [][NextRetry]_vars /\ WF_vars(NextRetry)

\* The paper fetching of one script job alone, over every id list and every
\* outcome of every get_paper_by_id.
NextFetch ==
    \/ \E preferences \in SearchPreferences, use_preferences \in BOOLEAN,
          ids \in IdLists, searchOk \in BOOLEAN, result \in SearchResults :
           FetchStart(preferences, use_preferences, ids, searchOk, result)
    \/ \E paper \in {Paper(id) : id \in {"paper_id_A", "paper_id_B"}} \cup {None} :
           GetPaperById(paper)
    \/ \E composeOk \in BOOLEAN : ComposeScript(composeOk)

SpecFetch == Init /\ [][NextFetch]_vars

\* The two renderers alone, over every script of at most MaxItems items.
NextRender ==
    \/ \E items \in ItemLists : LoadScript(items)
    \/ \E enable_ssml \in BOOLEAN : ParseScript(enable_ssml)
    \/ \E skipped \in SUBSET SpeechPositions(render.segments) :
           ProcessSegments(skipped)
    \/ \E add_transitions \in BOOLEAN, transitionOk \in BOOLEAN,
          intro \in BOOLEAN, outro \in BOOLEAN :
           CombineAudioSegments(add_transitions, transitionOk, intro, outro)
    \/ \E failed \in 0..(2 * MaxItems) : GenerateAudio(failed)

SpecRender == Init /\ [][NextRender]_vars

\* The requests that render at the same time, with their voices.
NextVoice ==
    \/ \E p \in Passes, speakers \in SpeakerLists,
          gender_preference \in GenderPreferences :
           RenderPodcast(p, speakers, gender_preference)
    \/ \E p \in Passes :
           \E recommended \in
                  recommend_voices(voice.pass[p].missing_speakers,
                                   voice.pass[p].gender_preference) :
               RecommendMissing(p, recommended)
    \/ \E p \in Passes : ProcessSpeech(p)
    \/ \E p \in Passes, speakers \in SpeakerLists :
           ServiceGenerateAudio(p, speakers)
    \/ \E p \in Passes : ServiceSynthesize(p)
    \/ \E p \in Passes : RenderReturn(p)

SpecVoice == Init /\ [][NextVoice]_vars

\* One test_voice request, and a request that renders a script on the same
\* renderer singleton before, during or after it.
NextTestVoice ==
    \/ \E voice_name \in TestVoiceNames, gender \in TestGenders :
           TestVoiceOverride(voice_name, gender)
    \/ \E ok \in BOOLEAN : TestVoiceRender(ok)
    \/ \E speakers \in SpeakerLists, gender_preference \in GenderPreferences :
           RenderPodcast(1, speakers, gender_preference)
    \/ \E recommended \in
              recommend_voices(voice.pass[1].missing_speakers,
                               voice.pass[1].gender_preference) :
           RecommendMissing(1, recommended)
    \/ ProcessSpeech(1)
    \/ RenderReturn(1)

SpecTestVoice == Init /\ [][NextTestVoice]_vars

\* One podcast with its chained audio task and the audio tasks that
\* regenerate_audio adds, each message delivered once; the audio task
\* function runs in two steps, so that the commits of the other sessions
\* fall between its load and its commit.
NextRegenerate ==
    \/ Create
    \/ \E m \in pending : ScriptClaim(m)
    \/ \E r \in RunIds : ScriptLoad(r)
    \/ \E r \in RunIds, searchOk \in BOOLEAN, result \in SearchResults,
          found \in SUBSET KnownIds, composeOk \in BOOLEAN :
           ScriptGenerate(r, searchOk, result, found, composeOk)
    \/ \E r \in RunIds, ok \in BOOLEAN : ScriptEnqueue(r, ok)
    \/ \E p \in PodcastIds, brokerOk \in BOOLEAN :
           Regenerations(p) < MaxRegenerations /\ RegenerateAudio(p, brokerOk)
    \/ \E m \in pending : AudioClaim(m)
    \/ \E r \in RunIds : AudioLoad(r)
    \/ \E r \in RunIds, ttsOk \in BOOLEAN, uploadOk \in BOOLEAN :
           AudioCommit(r, ttsOk, uploadOk)

SpecRegenerate == Init /\ [][NextRegenerate]_vars

\* Requests, broker and workers without cancel_task, every collaborator
\* returning or raising: the broker hands every message it holds to a
\* worker, and the worker runs the task function to its end.
NextSettle ==
    \/ Create
    \/ \E m \in sent : Redeliver(m)
    \/ Workers

SpecSettle == Init /\ [][NextSettle]_vars /\ WF_vars(Workers)

\* The StorageService alone: uploads, and the calls that take a reference
\* of the file uploaded last.
NextStorage ==
    \/ \E bucket_name \in BucketNames : StorageInit(bucket_name)
    \/ \E date \in Dates, filename \in Filenames, ok \in BOOLEAN :
           UploadAudio(date, filename, ok)
    \/ \E file_url \in References : DownloadAudio(file_url)
    \/ \E file_url \in References : DeleteAudio(file_url)
    \/ \E file_url \in References : GetAudioInfo(file_url)

SpecStorage == Init /\ [][NextStorage]_vars

\* -------------------------------------------------------------------- claims
\* The script tasks, and the runs and child audio tasks of a script task.
ScriptTasks == {t \in TaskIds : tasks[t].type = TYPE_SCRIPT_GENERATION}
RunsOf(t) == {r \in RunIds : run[r].task = t}
ChildrenOf(t) == {c \in TaskIds : tasks[c].type = TYPE_AUDIO_GENERATION
                                  /\ tasks[c].parent \in RunsOf(t)}

\* C1: once a task's persisted status is completed, failed or cancelled, no
\* step of a task function or of cancel_task changes it.
C1_TerminalStateIsFinal ==
    [][\A t \in TaskIds :
          tasks[t].status \in Terminal => tasks'[t].status = tasks[t].status]_vars

\* C1, the case the code produces: a script task that was completed is failed.
C1_CompletedBecameFailed ==
    \E r \in RunIds :
        /\ run[r].kind = TYPE_SCRIPT_GENERATION
        /\ run[r].child # NoTask
        /\ run[r].pc = "failed"
        /\ tasks[run[r].task].status = STATUS_FAILED

\* C2: a completed script task has its child audio task, and no script task
\* has more than one child audio task, however often the task is run.
C2_ExactlyOneChild ==
    \A t \in ScriptTasks :
        /\ tasks[t].status = STATUS_COMPLETED => ChildrenOf(t) # {}
        /\ Cardinality(ChildrenOf(t)) <= 1

\* C2, the case the code produces: one script task with two child audio tasks.
C2_TwoChildren == \E t \in ScriptTasks : Cardinality(ChildrenOf(t)) = 2

\* C3: of the workers that are handed the same task id, at most one moves
\* the task to processing and runs the task function's body.
C3_ClaimedByOneWorker ==
    \A r1, r2 \in RunIds : run[r1].task = run[r2].task => r1 = r2

\* C3, the case the code produces: two runs of one task, both past the claim
\* and neither finished.
C3_TwoConcurrentRuns ==
    \E r1, r2 \in RunIds :
        /\ r1 # r2
        /\ run[r1].task = run[r2].task
        /\ run[r1].pc \notin {"done", "failed"}
        /\ run[r2].pc \notin {"done", "failed"}

\* The audio tasks a run of the script task function added, and whether the
\* speech synthesizer was called for one of them.
CreatedBy(r) == {c \in TaskIds : tasks[c].parent = r}
SynthesizedFor(r) ==
    \E a \in RunIds : run[a].tts /\ run[a].task \in CreatedBy(r)

\* C4: a run of the script task function that fetched no paper, or whose
\* script composer raised, adds no audio task, sends no audio message and
\* leads to no call of the speech synthesizer.
C4_NoChildBeforeScript ==
    \A r \in RunIds :
        (/\ run[r].kind = TYPE_SCRIPT_GENERATION
         /\ \/ run[r].papers = <<>>
            \/ run[r].exc \in {MsgNoPapers, MsgCompose})
        => /\ run[r].child = NoTask
           /\ CreatedBy(r) = {}
           /\ \A m \in sent : m.kind = TYPE_AUDIO_GENERATION => m.task \notin CreatedBy(r)
           /\ ~SynthesizedFor(r)

\* C4, its cases: one run failed for want of papers, another because the
\* composer raised.
C4_BothFailures ==
    \E r1, r2 \in RunIds :
        /\ run[r1].pc = "failed" /\ run[r1].exc = MsgNoPapers /\ run[r1].papers = <<>>
        /\ run[r2].pc = "failed" /\ run[r2].exc = MsgCompose /\ run[r2].papers # <<>>

\* The step in which the except block of run r commits, both rows loaded.
HandlerStep(r) ==
    /\ run[r].pc # "failed"
    /\ run'[r].pc = "failed"
    /\ run'[r].taskObj
    /\ run'[r].podcastObj

\* What the except block of run r leaves in the tables, text being the
\* podcast's error message.
HandlerWrote(r, text) ==
    /\ run'[r].exc # NoMessage
    /\ tasks'[run[r].task].status = STATUS_FAILED
    /\ tasks'[run[r].task].error = run'[r].exc
    /\ podcasts'[run[r].podcast].status = STATUS_FAILED
    /\ podcasts'[run[r].podcast].error = text

\* C5 as the specification states it: the except block of either task
\* function leaves the task failed with the exception's text and the podcast
\* failed with the same text.
C5_SameMessage ==
    [][\A r \in RunIds :
          HandlerStep(r) => HandlerWrote(r, tasks'[run[r].task].error)]_vars

\* C5 as the code has it: the except block of either task function leaves
\* the task failed with the exception's text; the podcast is failed with the
\* same text by the script task and with "Audio generation failed: "
\* followed by that text by the audio task.
C5_PrefixedMessage ==
    [][\A r \in RunIds :
          HandlerStep(r) =>
              HandlerWrote(r, IF run[r].kind = TYPE_SCRIPT_GENERATION
                              THEN tasks'[run[r].task].error
                              ELSE <<"Audio generation failed: ">>
                                       \o tasks'[run[r].task].error)]_vars

\* C5, its case: an audio run has failed in the synthesizer and both rows
\* carry its text.
C5_AudioFailureRecorded ==
    \E r \in RunIds :
        /\ run[r].kind = TYPE_AUDIO_GENERATION
        /\ run[r].pc = "failed"
        /\ run[r].exc = MsgTTS
        /\ tasks[run[r].task].error = MsgTTS
        /\ podcasts[run[r].podcast].status = STATUS_FAILED
        /\ podcasts[run[r].podcast].error = <<"Audio generation failed: ">> \o MsgTTS

\* The script task whose run added the audio task of the audio run r.
ScriptTaskOf(r) == run[tasks[run[r].task].parent].task

\* The text part occurs at the end of the text whole.
EndsWith(whole, part) ==
    /\ Len(part) <= Len(whole)
    /\ SubSeq(whole, Len(whole) - Len(part) + 1, Len(whole)) = part

\* The audio runs that failed with the script task and the audio task each
\* run once.
FailedAudioRuns ==
    {r \in RunIds : /\ run[r].kind = TYPE_AUDIO_GENERATION
                    /\ run[r].pc = "failed"
                    /\ Cardinality(RunsOf(run[r].task)) = 1
                    /\ Cardinality(RunsOf(ScriptTaskOf(r))) = 1}

\* C6: the step in which an audio run fails leaves the row of the script
\* task as it was, a completed script task completed, the audio task failed
\* with the failure's text and the podcast failed with a message that ends
\* with that text; and when both tasks ran once, that is the state the
\* tables keep.
C6_AudioFailureKeepsScript ==
    /\ [](\A r \in FailedAudioRuns :
             /\ tasks[ScriptTaskOf(r)].status = STATUS_COMPLETED
             /\ tasks[run[r].task].status = STATUS_FAILED
             /\ tasks[run[r].task].error = run[r].exc
             /\ podcasts[run[r].podcast].status = STATUS_FAILED
             /\ EndsWith(podcasts[run[r].podcast].error, run[r].exc))
    /\ [][\A r \in RunIds :
             (run[r].kind = TYPE_AUDIO_GENERATION /\ HandlerStep(r)) =>
                 /\ tasks'[ScriptTaskOf(r)] = tasks[ScriptTaskOf(r)]
                 /\ tasks'[run[r].task].status = STATUS_FAILED
                 /\ tasks'[run[r].task].error = run'[r].exc
                 /\ run'[r].exc # NoMessage
                 /\ podcasts'[run[r].podcast].status = STATUS_FAILED
                 /\ EndsWith(podcasts'[run[r].podcast].error, run'[r].exc)]_vars

\* C6, its case: the script task completed, its audio task failed in the
\* upload, each after one run.
C6_ScriptCompletedAudioFailed ==
    \E r \in FailedAudioRuns :
        /\ run[r].exc = MsgUpload
        /\ tasks[ScriptTaskOf(r)].status = STATUS_COMPLETED
        /\ tasks[run[r].task].status = STATUS_FAILED
        /\ podcasts[run[r].podcast].status = STATUS_FAILED

TasksOf(p, type) == {t \in TaskIds : tasks[t].podcast = p /\ tasks[t].type = type}

\* Task t is completed with progress 100.
Finished(t) == tasks[t].status = STATUS_COMPLETED /\ tasks[t].progress = 100

\* The state a podcast ends in when all goes well: its script task finished,
\* exactly one audio task, finished too, the podcast completed, one
\* PodcastScript row, and one PodcastAudio row whose file_url is the
\* reference upload_audio returned to the audio run.
HappyEnd(p) ==
    /\ p \in PodcastIds
    /\ TasksOf(p, TYPE_SCRIPT_GENERATION) # {}
    /\ \A t \in TasksOf(p, TYPE_SCRIPT_GENERATION) : Finished(t)
    /\ Cardinality(TasksOf(p, TYPE_AUDIO_GENERATION)) = 1
    /\ \A t \in TasksOf(p, TYPE_AUDIO_GENERATION) : Finished(t)
    /\ podcasts[p].status = STATUS_COMPLETED
    /\ podcasts[p].scripts = 1
    /\ Len(podcasts[p].audio) = 1
    /\ \E r \in RunIds : /\ run[r].kind = TYPE_AUDIO_GENERATION
                         /\ run[r].podcast = p
                         /\ run[r].url = UploadReference(p, r)
                         /\ podcasts[p].audio[1] = run[r].url

\* C8: when every collaborator succeeds and nobody cancels, every podcast
\* that create_podcast has stored eventually reaches HappyEnd.
C8_EventuallyHappyEnd ==
    \A p \in 1..MaxHappyPodcasts : (p \in PodcastIds) ~> HappyEnd(p)

\* C8, its case: every podcast of the behaviour has reached HappyEnd.
C8_AllAtHappyEnd ==
    /\ Len(podcasts) = MaxHappyPodcasts
    /\ \A p \in PodcastIds : HappyEnd(p)

\* The step is a cancel_task request for task t that got the response code.
CancelStep(t, code) ==
    /\ resp' # resp
    /\ resp' = Response("cancel", t, code)

\* C9: a cancel_task request for a task that is completed, failed or
\* cancelled is answered 400 and changes neither table; a request that is not
\* answered 400, or that changes a table, was for a queued or processing task.
C9_CancelOnlyQueuedOrProcessing ==
    [][\A t \in TaskIds :
          /\ (\E code \in {200, 400, 500} : CancelStep(t, code))
             /\ tasks[t].status \in Terminal
                => CancelStep(t, 400) /\ tasks' = tasks /\ podcasts' = podcasts
          /\ (\E code \in {200, 500} : CancelStep(t, code))
                => tasks[t].status \in {STATUS_QUEUED, STATUS_PROCESSING}
          /\ (\E code \in {200, 400, 500} : CancelStep(t, code))
             /\ (tasks' # tasks \/ podcasts' # podcasts)
                => tasks[t].status \in {STATUS_QUEUED, STATUS_PROCESSING}]_vars

\* C9, its case: a request to cancel a task in a terminal state was rejected.
C9_TerminalRejected ==
    /\ resp.op = "cancel"
    /\ resp.code = 400
    /\ tasks[resp.task].status \in Terminal

\* C10: a cancel_task request for a queued or processing task leaves the
\* task's row cancelled and its podcast's row cancelled.
C10_CancelIsPersisted ==
    [][\A t \in TaskIds :
          (/\ \E code \in {200, 400, 500} : CancelStep(t, code)
           /\ tasks[t].status \in {STATUS_QUEUED, STATUS_PROCESSING})
          => /\ tasks'[t].status = STATUS_CANCELLED
             /\ podcasts'[tasks[t].podcast].status = STATUS_CANCELLED]_vars

\* C10, the case the code produces: the request for a queued task was
\* answered 500 and the task is still queued.
C10_QueuedAfterCancel ==
    /\ resp = Response("cancel", resp.task, 500)
    /\ resp.task \in TaskIds
    /\ tasks[resp.task].status = STATUS_QUEUED

\* The step calls a collaborator for run r: the paper source or the script
\* composer (lines 43-98), or the speech synthesizer (lines 176-180).
CallsCollaborator(r) ==
    \/ /\ run[r].kind = TYPE_SCRIPT_GENERATION
       /\ run[r].pc = "loaded"
       /\ run'[r].pc # "loaded"
       /\ run'[r].exc # MsgNoSource
    \/ /\ run[r].kind = TYPE_AUDIO_GENERATION
       /\ ~run[r].tts
       /\ run'[r].tts

\* The last request was a cancel_task for task t that was not rejected.
CancelRequested(t) ==
    /\ resp.op = "cancel"
    /\ resp.task = t
    /\ resp.code # 400

\* C11: once cancel_task was called for a queued or processing task and
\* not rejected, no step starts a call of the paper source, the script
\* composer or the speech synthesizer for that task.
C11_NoCallAfterCancel ==
    [][\A r \in RunIds :
          CancelRequested(run[r].task) => ~CallsCollaborator(r)]_vars

\* C11, the case the code produces: the cancel of an audio task was the last
\* request and the speech synthesizer has been called for the task.
C11_SynthesizedAfterCancel ==
    \E r \in RunIds :
        /\ run[r].kind = TYPE_AUDIO_GENERATION
        /\ CancelRequested(run[r].task)
        /\ run[r].tts

\* ------------------------------------------------------ claims: retried calls
\* The entries of the trace of the call in progress, by kind and by outcome.
Calls(call) == SelectSeq(svc.trace, LAMBDA e : e.call = call)
CallsWith(call, out) == SelectSeq(svc.trace, LAMBDA e : e.call = call /\ e.out = out)
Invocations == Len(Calls("operation"))
Probes == Len(Calls("probe"))
Sleeps == Len(Calls("sleep"))
RateLimits == Len(CallsWith("operation", E429))
AlwaysRateLimited == RateLimits = Invocations
EveryProbeSucceeded == Len(CallsWith("probe", OK)) = Probes
EveryProbeRateLimited == Len(CallsWith("probe", E429)) = Probes
Done(fn) == svc.fn = fn /\ svc.pc = "done"

\* C12, as stated: a search_papers whose operation is rate-limited at every
\* invocation has invoked it exactly limit times when it ends, and ends by
\* raising.
C12_ExactlyLimitInvocations ==
    Done(FN_SEARCH) /\ AlwaysRateLimited
        => Invocations = svc.limit /\ svc.result = "raised"

\* C12, as the code has it: a search_papers whose operation is rate-limited
\* at every invocation never invokes it more than limit + 1 times and never
\* returns; it ends after exactly limit + 1 invocations with the operation's
\* own 429 error when every probe succeeded, and after one invocation with
\* the handler's 429 error when every probe was rate-limited too; and every
\* call of search_papers ends.
C12_LimitPlusOneInvocations ==
    /\ [](svc.fn = FN_SEARCH /\ AlwaysRateLimited
            => /\ Invocations <= svc.limit + 1
               /\ svc.result # "returned"
               /\ Done(FN_SEARCH) /\ EveryProbeSucceeded
                    => Invocations = svc.limit + 1 /\ svc.err = E429
               /\ Done(FN_SEARCH) /\ EveryProbeRateLimited
                    => Invocations = 1 /\ svc.err = ERECOVER)
    /\ (svc.fn = FN_SEARCH ~> svc.pc = "done")

\* C12, the case: the retries are used up, every probe having succeeded.
C12_RetriesUsedUp ==
    /\ Done(FN_SEARCH)
    /\ AlwaysRateLimited
    /\ EveryProbeSucceeded
    /\ svc.limit = MaxRetryLimit
    /\ Invocations = svc.limit + 1
    /\ svc.err = E429

\* C13: in a search_papers whose probes all succeeded, a call that returned
\* was rate-limited k <= limit times, slept exactly k times, made 2k + 1
\* calls of the client (k = 1: operation, probe, operation) and returns the
\* result of its last invocation, the successful one; an invocation that
\* succeeds makes the call return; and the call raises the rate-limit error
\* only after more than limit rate limits.
C13_OneSleepPerRateLimit ==
    svc.fn = FN_SEARCH /\ EveryProbeSucceeded
        => /\ svc.result = "returned"
                => /\ RateLimits <= svc.limit
                   /\ Sleeps = RateLimits
                   /\ Invocations + Probes = 2 * RateLimits + 1
                   /\ svc.trace[Len(svc.trace)] = Event("operation", OK)
                   /\ svc.value = "papers"
           /\ Len(CallsWith("operation", OK)) > 0 => svc.result = "returned"
           /\ svc.result = "raised" /\ svc.err = E429
                => RateLimits = svc.limit + 1

\* C13, the case: as many rate limits as the limit allows, then success.
C13_RecoveredAtLimit ==
    /\ Done(FN_SEARCH)
    /\ svc.result = "returned"
    /\ EveryProbeSucceeded
    /\ svc.limit = MaxRetryLimit
    /\ RateLimits = svc.limit
    /\ Sleeps = svc.limit

\* The trace of a call of _handle_rate_limit_internally alternates sleep and
\* probe, starting with a sleep.
Alternates(trace) ==
    \A k \in 1..Len(trace) :
        trace[k].call = IF k % 2 = 1 THEN "sleep" ELSE "probe"

\* The part of the trace after the last invocation of the operation: the
\* handler's own trace.
RECURSIVE SinceOperation(_)
SinceOperation(trace) ==
    IF trace = <<>> \/ trace[Len(trace)].call = "operation" THEN <<>>
    ELSE Append(SinceOperation(SubSeq(trace, 1, Len(trace) - 1)),
                trace[Len(trace)])

\* C14: _handle_rate_limit_internally, called alone or by search_papers,
\* sleeps exactly once before each probe; it returns at the first
\* successful probe, every earlier probe having been rate-limited; and when
\* all limit probes were rate-limited it has slept limit times, probed limit
\* times and raises the 429 error with the reason "Failed to recover from
\* rate limiting after internal retries.", and only then.
C14_SleepThenProbe ==
    /\ svc.fn \in {FN_SEARCH, FN_HANDLER} => Alternates(SinceOperation(svc.trace))
    /\ svc.fn = FN_HANDLER
        => /\ Probes <= svc.limit
           /\ svc.result = "returned"
                <=> Probes > 0 /\ svc.trace[Len(svc.trace)] = Event("probe", OK)
           /\ svc.result = "returned"
                => Len(CallsWith("probe", E429)) = Probes - 1 /\ Sleeps = Probes
           /\ svc.result = "raised" /\ svc.err = ERECOVER
                <=> Len(CallsWith("probe", E429)) = svc.limit
           /\ svc.result = "raised" /\ svc.err = ERECOVER
                => Sleeps = svc.limit /\ Probes = svc.limit

\* C14, the case: every probe the limit allows was rate-limited.
C14_NeverRecovered ==
    /\ Done(FN_HANDLER)
    /\ svc.limit = MaxRetryLimit
    /\ svc.err = ERECOVER
    /\ Sleeps = svc.limit
    /\ Probes = svc.limit

\* The errors that are neither a rate limit nor transient: an HTTP error
\* other than 429 (the 500 of test_handle_rate_limit_internally_non_429_error)
\* and a programming error.
NeitherRateLimitNorTransient == {EHTTP, EOTHER}

\* C15: when the operation or the probe raised an error that is neither a
\* rate limit nor transient, no sleep, probe or invocation follows it: the
\* failed call is the last entry of the trace.
C15_NoRetryOfOtherErrors ==
    \A k \in 1..Len(svc.trace) :
        svc.trace[k].out \in NeitherRateLimitNorTransient => k = Len(svc.trace)

\* C15, the case the code produces: get_paper_by_id slept and called the
\* client again after an HTTP 500.
C15_HttpErrorRetried ==
    /\ svc.fn = FN_FETCH
    /\ Len(svc.trace) >= 3
    /\ svc.trace[1] = Event("operation", EHTTP)
    /\ svc.trace[2] = Slept
    /\ svc.trace[3].call = "operation"

\* The retries of the call are used up: search_papers was rate-limited at
\* limit + 1 invocations or its handler at limit probes in a row;
\* get_paper_by_id failed max_retries times with an error it retries;
\* synthesize_speech failed MAX_RETRIES times with an API error and slept.
ExhaustedSearch ==
    /\ svc.fn = FN_SEARCH
    /\ \/ RateLimits = svc.limit + 1
       \/ Len(SelectSeq(SinceOperation(svc.trace),
                        LAMBDA e : e = Event("probe", E429))) = svc.limit
ExhaustedFetch ==
    /\ svc.fn = FN_FETCH
    /\ Len(SelectSeq(svc.trace,
                     LAMBDA e : e.call = "operation" /\ Retryable(e.out))) = svc.limit
ExhaustedSpeech ==
    /\ svc.fn = FN_SPEECH
    /\ Len(CallsWith("operation", EAPI)) = svc.limit
    /\ Sleeps = svc.limit

\* C16, as stated: when the retries of search_papers, get_paper_by_id or
\* synthesize_speech are used up, the call has raised, and what it raised is
\* the last error of the remote client.
C16_ExhaustionRaisesLastError ==
    ExhaustedSearch \/ ExhaustedFetch \/ ExhaustedSpeech
        => svc.result = "raised" /\ svc.err = svc.last

\* C16, as the code has it: when the retries are used up, search_papers has
\* raised an HTTP 429 error (the operation's own last error, or the
\* handler's new one) and synthesize_speech has raised its own generic
\* exception, which is not the last error of the client; neither returns a
\* value. get_paper_by_id has returned None.
C16_ExhaustionOutcome ==
    /\ ExhaustedSearch
        => /\ svc.result = "raised"
           /\ svc.err \in {E429, ERECOVER}
           /\ svc.err = E429 => svc.err = svc.last
    /\ ExhaustedSpeech
        => /\ svc.result = "raised"
           /\ svc.err = EGIVEUP
           /\ svc.last = EAPI
    /\ ExhaustedFetch
        => /\ svc.result = "returned"
           /\ svc.value = "None"

\* C16, the case: all three attempts of get_paper_by_id failed with a
\* connection error.
C16_FetchGaveUp ==
    /\ Done(FN_FETCH)
    /\ Len(CallsWith("operation", ECONN)) = max_retries
    /\ svc.last = ECONN

\* ----------------------------------------------------- claims: paper fetching
\* The papers of the ids whose fetch succeeded, in the order of the ids.
RECURSIVE Fetched(_, _)
Fetched(ids, found) ==
    IF ids = <<>> THEN <<>>
    ELSE (IF Head(found) THEN <<Paper(Head(ids))>> ELSE <<>>)
             \o Fetched(Tail(ids), Tail(found))

TwoSpeeches ==
    /\ Len(render.sections) = 2
    /\ \A k \in 1..2 : /\ Len(render.sections[k]) = 1
                       /\ ~Blank(render.sections[k][1])

\* The types of the entries of a list, with "break" for a section break.
Shape(segments) ==
    [i \in 1..Len(segments) |->
        IF segments[i].type = "pause" /\ segments[i].section_break THEN "break"
        ELSE segments[i].type]

\* A short pause is directly followed by a section break or a transition.
PauseThenBoundary(segments) ==
    \E i \in 1..(Len(segments) - 1) :
        /\ segments[i] = Pause(500, FALSE)
        /\ Shape(segments)[i + 1] \in {"break", "transition"}

\* C18, as stated: for a script of two sections with one non-blank segment
\* each, neither the list parse_script returns nor the combined audio has a
\* short pause directly followed by the section break or its transition.
C18_TransitionReplacesPause ==
    TwoSpeeches
        => /\ ~PauseThenBoundary(render.segments)
           /\ ~PauseThenBoundary(render.combined)

\* C18, as the code has it: for such a script parse_script returns speech,
\* short pause, section break, speech, short pause; combining the audio
\* files keeps every short pause, and replaces the section break by the
\* transition exactly when transitions are on and the break is neither the
\* first nor the last file, so that the transition follows a short pause.
C18_TransitionAfterPause ==
    TwoSpeeches
        => /\ render.pc \in {"parsed", "processed"} \/ render.segments # <<>>
                => Shape(render.segments)
                       = <<"speech", "pause", "break", "speech", "pause">>
           /\ render.combined # <<>>
                => /\ Len(render.combined) = Len(render.audio_files)
                   /\ \A i \in 1..Len(render.combined) :
                          IF /\ Shape(render.audio_files)[i] = "break"
                             /\ render.add_transitions
                             /\ 1 < i
                             /\ i < Len(render.audio_files)
                          THEN render.combined[i] = Transition
                          ELSE render.combined[i] = render.audio_files[i]

\* C18, the case: both speeches were synthesized and the combined audio has
\* the transition between them, after the first speech's short pause.
C18_PauseAndTransition ==
    /\ TwoSpeeches
    /\ Shape(render.combined)
           = <<"speech", "pause", "transition", "speech", "pause">>

\* The section breaks of a list of segments.
Breaks(segments) == SelectSeq(Shape(segments), LAMBDA t : t = "break")

\* C19: for a script of n >= 1 sections, the list parse_script returns has
\* exactly n - 1 section breaks and does not start with one.
C19_BreakPerLaterSection ==
    render.pc = "parsed" /\ Len(render.sections) >= 1
        => /\ Len(Breaks(render.segments)) = Len(render.sections) - 1
           /\ render.segments # <<>> => Shape(render.segments)[1] # "break"

\* C19, the case the code produces: the first section has a segment, but
\* only blank ones, the second has a speech, and no break was emitted.
C19_NoBreakAfterBlankSection ==
    /\ render.pc = "parsed"
    /\ Len(render.sections) = 2
    /\ render.sections[1] # <<>>
    /\ \A k \in 1..Len(render.sections[1]) : Blank(render.sections[1][k])
    /\ Shape(render.segments) = <<"speech", "pause">>

\* The text is empty or whitespace only.
Whitespace(text) == \A k \in 1..Len(text) : text[k] = " "

\* Every speech of the list is directly followed by a short pause, and
\* every short pause directly follows a speech.
Paired(segments) ==
    \A i \in 1..Len(segments) :
        /\ segments[i].type = "speech"
            => i < Len(segments) /\ segments[i + 1] = Pause(500, FALSE)
        /\ segments[i] = Pause(500, FALSE)
            => i > 1 /\ segments[i - 1].type = "speech"

Speeches(segments) == Len(SelectSeq(segments, LAMBDA e : e.type = "speech"))
ShortPauses(segments) == Len(SelectSeq(segments, LAMBDA e : e = Pause(500, FALSE)))
\* The segments of the script whose text is not empty or whitespace only,
\* and those whose text is not empty after cleaning.
Spoken == Len(SelectSeq(Flatten(render.sections), LAMBDA t : ~Whitespace(t)))
SpokenCleaned ==
    Len(SelectSeq(Flatten(render.sections), LAMBDA t : _clean_text(t) # <<>>))

RECURSIVE SpeechesAt(_, _, _)
SpeechesAt(segments, positions, i) ==
    IF i > Len(segments) THEN <<>>
    ELSE (IF i \in positions /\ segments[i].type = "speech"
          THEN <<segments[i]>> ELSE <<>>)
             \o SpeechesAt(segments, positions, i + 1)
AllSpeeches(segments) == SpeechesAt(segments, 1..Len(segments), 1)

\* The render is over, the synthesis of a speech failed and that of another
\* returned.
OneFailedOneSynthesized ==
    /\ render.pc = "done"
    /\ render.skipped # {}
    /\ render.synthesized # {}

C22_NoSpeechNoOutput ==
    render.pc = "done" /\ render.synthesized = {}
        => /\ render.exc # NoMessage
           /\ render.combined = <<>>
           /\ render.audio_segments = <<>>

\* C22, the case the code produces: every synthesis of process_segments
\* failed and _combine_audio_segments returned the pauses.
C22_OnlyPausesCombined ==
    /\ render.pc = "done"
    /\ render.by = "AudioProcessor"
    /\ render.skipped # {}
    /\ render.synthesized = {}
    /\ render.exc = NoMessage
    /\ render.combined # <<>>
    /\ AllSpeeches(render.combined) = <<>>

\* The script with one more segment, of the given text, at the end of
\* section k.
Extended(sections, k, text) == [sections EXCEPT ![k] = Append(@, text)]

\* The length of what the renderer of the current render returns for a
\* script, every synthesis returning, with the options of the current render.
RenderedDuration(sections) ==
    IF render.by = "TTSService"
    THEN TotalDuration(generate_audio(Flatten(sections)))
    ELSE MixDuration(
             CombineFrom(
                 process_segments(
                     parse_script(sections, <<>>, render.enable_ssml), {}),
                 1, render.add_transitions),
             render.intro, render.outro)

TextsOf(segments) ==
    [i \in 1..Len(AllSpeeches(segments)) |-> AllSpeeches(segments)[i].text]

\* The texts of the script, section after section, that are not empty or
\* whitespace only, as they are synthesized with or without markup; and
\* those that are not empty after cleaning, cleaned.
RECURSIVE ScriptTexts(_, _)
ScriptTexts(sections, enable_ssml) ==
    IF sections = <<>> THEN <<>>
    ELSE LET spoken == SelectSeq(Head(sections), LAMBDA t : ~Whitespace(t))
         IN  [i \in 1..Len(spoken) |->
                 IF enable_ssml THEN _enhance_with_ssml(spoken[i])
                 ELSE spoken[i]]
                 \o ScriptTexts(Tail(sections), enable_ssml)
RECURSIVE CleanedTexts(_)
CleanedTexts(sections) ==
    IF sections = <<>> THEN <<>>
    ELSE LET spoken ==
                 SelectSeq(Head(sections), LAMBDA t : _clean_text(t) # <<>>)
         IN  [i \in 1..Len(spoken) |-> _clean_text(spoken[i])]
                 \o CleanedTexts(Tail(sections))

\* The k-th speech of the segment list is at a position whose synthesis
\* returned.
RECURSIVE NthSpeech(_, _, _)
NthSpeech(segments, k, i) ==
    IF segments[i].type = "speech"
    THEN IF k = 1 THEN i ELSE NthSpeech(segments, k - 1, i + 1)
    ELSE NthSpeech(segments, k, i + 1)
Synthesized(k) == NthSpeech(render.segments, k, 1) \in render.synthesized

\* The script's texts whose synthesis returned, in the order of the script.
SynthesizedTexts ==
    LET texts == ScriptTexts(render.sections, render.enable_ssml)
        RECURSIVE From(_)
        From(k) ==
            IF k > Len(texts) THEN <<>>
            ELSE (IF Synthesized(k) THEN <<texts[k]>> ELSE <<>>) \o From(k + 1)
    IN  From(1)

Appends(operation) ==
    operation \in {"intro", "silence", "speech", "pause", "transition", "outro"}

\* C27: the combined audio is normalized once, when the intro, every entry,
\* the background music and the outro are in it: the normalization is the
\* last operation of the mix and nothing is appended after it.
C27_NormalizedLast ==
    render.pc = "done" /\ render.by = "AudioProcessor" /\ render.exc = NoMessage
        => /\ Len(SelectSeq(render.mix, LAMBDA o : o = "normalize")) = 1
           /\ render.mix[Len(render.mix)] = "normalize"
           /\ \A i \in 1..Len(render.mix), j \in 1..Len(render.mix) :
                  render.mix[i] = "normalize" /\ i < j
                      => ~Appends(render.mix[j])

\* C27, the case: a mix with an outro, normalized once, after the background
\* music, and the pause and the outro appended to the normalized audio.
C27_OutroAfterNormalization ==
    /\ render.pc = "done"
    /\ render.by = "AudioProcessor"
    /\ render.exc = NoMessage
    /\ render.outro
    /\ Len(SelectSeq(render.mix, LAMBDA o : o = "normalize")) = 1
    /\ SubSeq(render.mix, Len(render.mix) - 3, Len(render.mix))
           = <<"background_music", "normalize", "silence", "outro">>

\* ------------------------------------------------------------- claims: voices
\* The request has had recommend_voices choose voices.
Recommends(p) ==
    /\ voice.pass[p].pc = "voiced"
    /\ voice.pass[p].by = "PodcastRenderer"
    /\ voice.pass[p].missing_speakers # <<>>

\* C24: two requests that had recommend_voices choose voices for the same
\* speakers, in the same order, with the same preference were returned the
\* same voice name, gender, speaking rate and pitch for every speaker.
C24_SameVoicesForSameSpeakers ==
    \A p \in Passes, q \in Passes :
        /\ Recommends(p)
        /\ Recommends(q)
        /\ voice.pass[p].missing_speakers = voice.pass[q].missing_speakers
        /\ voice.pass[p].gender_preference = voice.pass[q].gender_preference
        => voice.pass[p].recommended = voice.pass[q].recommended

\* C24, the case: two requests were returned voices for the same two speakers
\* with the same preference, and the first of the speakers has the same voice
\* in both.
C24_TwoCallsSameSpeakers ==
    /\ Recommends(1)
    /\ Recommends(2)
    /\ Len(voice.pass[1].missing_speakers) = 2
    /\ voice.pass[1].missing_speakers = voice.pass[2].missing_speakers
    /\ voice.pass[1].gender_preference = voice.pass[2].gender_preference
    /\ voice.pass[1].recommended[voice.pass[1].missing_speakers[1]]
           = voice.pass[2].recommended[voice.pass[1].missing_speakers[1]]

\* C25: while a request renders, every speaker of its script has a voice, and
\* all the segments of a speaker synthesized so far were synthesized with one
\* voice.
C25_OneVoicePerSpeaker ==
    \A p \in Passes :
        voice.pass[p].pc = "voiced"
            => \A i \in 1..Len(voice.pass[p].speakers) :
                   LET speaker == voice.pass[p].speakers[i]
                   IN  /\ voice.pass[p].by = "PodcastRenderer"
                           => voice.voice_configs[speaker] # NoVoice
                       /\ Cardinality(voice.pass[p].used[speaker]) <= 1

\* C25, the case: both segments of a speaker were synthesized while another
\* request was rendering on the same renderer.
C25_TwoSegmentsWhileAnotherRenders ==
    /\ voice.pass[1].pc = "voiced"
    /\ voice.pass[1].by = "PodcastRenderer"
    /\ voice.pass[1].todo = <<>>
    /\ voice.pass[2].pc = "voiced"
    /\ voice.pass[2].by = "PodcastRenderer"
    /\ voice.pass[2].missing_speakers # <<>>

\* ------------------------------------------------------- claims: the podcast
\* The script run has set the podcast processing and has not failed, and the
\* audio task it has added, if any, is queued or processing.
AudioPending(r) ==
    /\ run[r].kind = TYPE_SCRIPT_GENERATION
    /\ \/ run[r].pc \in {"loaded", "persisted"}
       \/ /\ run[r].pc = "done"
          /\ tasks[run[r].child].status \in {STATUS_QUEUED, STATUS_PROCESSING}

\* C28: from the commit of a script run that sets the podcast processing
\* until the audio task that the run enqueues is completed, failed or
\* cancelled, the podcast is processing; and a podcast is completed only if
\* a run of generate_podcast_audio for it has succeeded.
C28_ProcessingUntilAudioEnds ==
    /\ \A r \in RunIds :
           AudioPending(r) => podcasts[run[r].podcast].status = STATUS_PROCESSING
    /\ \A p \in 1..Len(podcasts) :
           podcasts[p].status = STATUS_COMPLETED
               => \E r \in RunIds :
                      /\ run[r].kind = TYPE_AUDIO_GENERATION
                      /\ run[r].podcast = p
                      /\ run[r].pc = "done"

\* C28, the case: the script task is completed, its audio task is claimed
\* and the podcast is processing.
C28_ScriptDoneAudioRunning ==
    \E r \in RunIds :
        /\ run[r].kind = TYPE_SCRIPT_GENERATION
        /\ run[r].pc = "done"
        /\ tasks[run[r].task].status = STATUS_COMPLETED
        /\ tasks[run[r].child].status = STATUS_PROCESSING
        /\ podcasts[run[r].podcast].status = STATUS_PROCESSING

\* ------------------------------------------------- claims: the paper source
\* The request names no usable paper source: no preferences to use, or
\* preferences whose topics, categories and authors are all empty, or no
\* preferences asked for and no paper id.
Unusable(preferences, use_preferences, paper_ids) ==
    \/ ~use_preferences /\ paper_ids = <<>>
    \/ /\ use_preferences
       /\ \/ preferences = {}
          \/ preferences = {Preferences(<<>>, <<>>, <<>>)}

\* C29: a create_podcast request without a usable paper source is answered
\* with 400, and adds no podcast, no task and no message.
C29_RejectedWithoutSource ==
    [][\A preferences \in UserPreferences, use_preferences \in BOOLEAN,
          paper_ids \in PaperIdLists, brokerOk \in BOOLEAN :
           /\ Unusable(preferences, use_preferences, paper_ids)
           /\ CreatePodcast(preferences, use_preferences, paper_ids, brokerOk)
           => /\ resp' = Response("create", NoTask, 400)
              /\ UNCHANGED <<podcasts, tasks, sent, pending>>]_vars

\* C29, the case: a request was answered with 400 and there is no podcast,
\* no task and no message.
C29_NothingCreated ==
    /\ resp = Response("create", NoTask, 400)
    /\ podcasts = <<>>
    /\ tasks = Empty
    /\ sent = {}
    /\ pending = {}

\* The arguments the claim expects search_papers to be called with for a
\* preferences row.
ExpectedSearch(row) ==
    [topics |-> row.topics, categories |-> row.categories,
     authors |-> row.authors,
     max_results |-> IF row.max_results > 5 THEN 5 ELSE row.max_results,
     days_back |-> row.days_back, sort_by_preference |-> row.sort_by]

\* C30: a script job with use_preferences, of a user with a preferences row,
\* calls search_papers once, with the row's topics, categories, authors and
\* sort_by and at most 5 results, and never get_paper_by_id, whatever its id
\* list; and a job that calls get_paper_by_id calls no search and is a job
\* without use_preferences or of a user without preferences.
C30_SearchOnceNoFetchById ==
    /\ fetch.pc # "idle" /\ fetch.use_preferences /\ fetch.preferences # {}
        => /\ Len(fetch.searches) = 1
           /\ \A row \in fetch.preferences :
                  fetch.searches[1] = ExpectedSearch(row)
           /\ fetch.calls = <<>>
    /\ fetch.calls # <<>>
        => /\ fetch.searches = <<>>
           /\ ~fetch.use_preferences \/ fetch.preferences = {}
    /\ fetch.pc = "done" /\ fetch.searches = <<>> /\ fetch.ids # <<>>
        => fetch.calls = fetch.ids

\* C30, the case: a job with use_preferences and an id list, a row that asks
\* for 10 results, and one search for 5.
C30_SearchedDespiteIds ==
    /\ fetch.pc = "done"
    /\ fetch.use_preferences
    /\ fetch.ids # <<>>
    /\ \E row \in fetch.preferences : row.max_results = 10
    /\ Len(fetch.searches) = 1
    /\ fetch.searches[1].max_results = 5
    /\ fetch.calls = <<>>
    /\ fetch.composed

\* ---------------------------------------------------- claims: the task rows
\* The numbers of a sequence never decrease from one to the next.
NonDecreasing(seq) == \A i \in 1..Len(seq), j \in 1..Len(seq) : i < j => seq[i] <= seq[j]

\* C31: what a run of a task function has reported is within 0..100, never
\* decreases, and is the beginning of 10, 30, 70, 100 for the script task and
\* of 10, 60, 80, 100 for the audio task; the progress of a task row is
\* within 0..100, and is 100 when the row is completed.
C31_ProgressNeverDecreases ==
    /\ \A r \in RunIds :
           /\ \A i \in 1..Len(run[r].progress) : run[r].progress[i] \in 0..100
           /\ NonDecreasing(run[r].progress)
           /\ LET steps == IF run[r].kind = TYPE_SCRIPT_GENERATION
                           THEN <<10, 30, 70, 100>> ELSE <<10, 60, 80, 100>>
              IN  run[r].progress = SubSeq(steps, 1, Len(run[r].progress))
           /\ run[r].pc = "done" => Len(run[r].progress) = 4
    /\ \A t \in TaskIds :
           /\ tasks[t].progress \in 0..100
           /\ tasks[t].status = STATUS_COMPLETED => tasks[t].progress = 100

\* C31, the case: the script task and the audio task of a podcast have
\* reported all four steps and both rows are completed with progress 100.
C31_BothReportedAll ==
    \E r \in RunIds, a \in RunIds :
        /\ run[r].kind = TYPE_SCRIPT_GENERATION
        /\ run[a].kind = TYPE_AUDIO_GENERATION
        /\ run[r].progress = <<10, 30, 70, 100>>
        /\ run[a].progress = <<10, 60, 80, 100>>
        /\ tasks[run[r].task].status = STATUS_COMPLETED
        /\ tasks[run[a].task].status = STATUS_COMPLETED
        /\ tasks[run[r].task].progress = 100
        /\ tasks[run[a].task].progress = 100

\* --------------------------------------------------- claims: regenerated audio
\* The audio runs of podcast p.
AudioRuns(p) == {r \in RunIds : run[r].podcast = p /\ run[r].kind = TYPE_AUDIO_GENERATION}

\* Run r ends in this step and no other audio task of its podcast, and no
\* other audio run, is still to end: its commit is the last one.
LastTerminalCommit(r) ==
    /\ r \in AudioRuns(run[r].podcast)
    /\ run[r].pc = "rendering"
    /\ run'[r].pc \in {"done", "failed"}
    /\ \E q \in AudioRuns(run[r].podcast) : q.by # r.by
    /\ \A q \in AudioRuns(run[r].podcast) \ {r} : run[q].pc \in {"done", "failed"}
    /\ \A t \in TaskIds :
           tasks[t].podcast = run[r].podcast /\ tasks[t].type = TYPE_AUDIO_GENERATION
               => tasks'[t].status \in Terminal

\* C32: when the chained audio task and a regenerated audio task of one
\* podcast have both ended, the podcast's status and error message are the
\* ones of the task whose commit was last: completed without a message, or
\* failed with that task's message.
C32_LastWriterWins ==
    [][\A r \in RunIds :
          LastTerminalCommit(r) =>
              LET row == podcasts'[run[r].podcast]
              IN IF run'[r].pc = "done"
                 THEN row.status = STATUS_COMPLETED /\ row.error = NoMessage
                 ELSE /\ row.status = STATUS_FAILED
                      /\ row.error = AudioPodcastMessage(run'[r].exc)]_vars

\* C32: the chained task has failed, the regenerated one has completed
\* after it, and the podcast is completed with the failed task's message.
C32_CompletedWithTheOtherMessage ==
    \E a, b \in RunIds :
        /\ a.by > 0 /\ b.by < 0 /\ a.podcast = b.podcast
        /\ run[a].pc = "failed" /\ run[b].pc = "done"
        /\ podcasts[a.podcast].status = STATUS_COMPLETED
        /\ podcasts[a.podcast].error = AudioPodcastMessage(run[a].exc)

\* ------------------------------------------------- claims: the task timestamps
\* C33: a task row that is processing, completed or failed has started_at
\* set, and a task row has completed_at set exactly when its status is
\* terminal.
C33_TimestampsMatchStatus ==
    \A t \in TaskIds :
        /\ tasks[t].status \in {STATUS_PROCESSING, STATUS_COMPLETED, STATUS_FAILED}
               => tasks[t].started
        /\ tasks[t].completed <=> tasks[t].status \in Terminal

\* C33: a run has ended and written completed_at, and a second run of the
\* same task has claimed the row since: processing with completed_at set.
C33_ProcessingWithCompletedAt ==
    \E t \in TaskIds :
        /\ tasks[t].status = STATUS_PROCESSING
        /\ tasks[t].completed
        /\ \E a, b \in RunIds :
               /\ a # b /\ run[a].task = t /\ run[b].task = t
               /\ run[a].pc \in {"done", "failed", "persisted"}
               /\ run[b].pc = "claimed"

\* --------------------------------------------------- claims: the podcast rows
\* C34: in every committed state a completed podcast has an audio record
\* and no error message, and a failed podcast has an error message.
C34_StatusMatchesOutcome ==
    \A p \in PodcastIds :
        /\ podcasts[p].status = STATUS_COMPLETED
               => podcasts[p].audio # <<>> /\ podcasts[p].error = NoMessage
        /\ podcasts[p].status = STATUS_FAILED => podcasts[p].error # NoMessage

\* C34: a podcast is completed and has its audio record, and still carries
\* an error message.
C34_CompletedWithAnError ==
    \E p \in PodcastIds :
        /\ podcasts[p].status = STATUS_COMPLETED
        /\ podcasts[p].audio # <<>>
        /\ podcasts[p].error # NoMessage

\* ------------------------------------------------- claims: the chained audio
\* The audio tasks added by the runs of task t.
Children(t) ==
    {c \in TaskIds : tasks[c].type = TYPE_AUDIO_GENERATION
                     /\ tasks[c].parent # NoRun
                     /\ run[tasks[c].parent].task = t}

\* C35: a failed script task has no child audio task.
C35_FailedScriptHasNoChild ==
    \A t \in TaskIds :
        tasks[t].type = TYPE_SCRIPT_GENERATION /\ tasks[t].status = STATUS_FAILED
            => Children(t) = {}

\* C35: generate_podcast_audio.delay has raised after the commit that added
\* the child: the script task is failed and its child is queued, and no
\* message for the child was sent.
C35_FailedWithQueuedChild ==
    \E t \in TaskIds : \E c \in Children(t) :
        /\ tasks[t].status = STATUS_FAILED
        /\ tasks[t].error = MsgBroker
        /\ tasks[c].status = STATUS_QUEUED
        /\ \A m \in sent : m.task # c

\* ---------------------------------------------------- claims: the blob store
\* The blob that upload_audio stored under the reference it returned last.
Uploaded == SubSeq(store.file_url, Len(GS) + 2, Len(store.file_url))

\* C36: a reference that upload_audio has returned is one that the other
\* methods resolve: download_audio does not reject it as an invalid URL,
\* and delete_audio and get_audio_info find the blob while it is stored.
C36_UploadedReferenceResolves ==
    [][store.file_url # <<>> =>
          /\ DownloadAudio(store.file_url)
                 => store'.value # <<"Invalid file URL">>
          /\ DeleteAudio(store.file_url) /\ Uploaded \in store.blobs
                 => store'.value = <<"True">>
          /\ GetAudioInfo(store.file_url) /\ Uploaded \in store.blobs
                 => store'.value # <<"None">>]_vars

\* C36: download_audio has rejected a URL while the blob of the last
\* upload is in the bucket, and the public URL of the same blob resolves.
C36_StoredButInvalid ==
    /\ store.op = "download_audio"
    /\ store.outcome = "raised"
    /\ store.value = <<"Invalid file URL">>
    /\ Uploaded \in store.blobs
    /\ ExtractBlobName(store.bucket_name,
                       PublicUrl(store.bucket_name, Uploaded)) = Uploaded

\* ------------------------------------------------------- claims: test_voice
\* C37: when test_voice has ended, by returning the sample or by raising,
\* the renderer singleton has the dictionary of voices it had before, and no
\* other request ever renders with the dictionary of the test.
C37_TestVoiceLeavesNoTrace ==
    /\ voice.test.pc \in {"returned", "raised"}
           => voice.configs = voice.test.original_configs
    /\ \A p \in Passes : voice.pass[p].voice_configs # "test"

\* C37: render_podcast has raised in test_voice, and a request that came
\* after it has rendered a speech with the dictionary of the test.
C37_RendersWithTheTestVoices ==
    /\ voice.test.pc = "raised"
    /\ voice.configs = "test"
    /\ voice.pass[1].voice_configs = "test"
    /\ \E speaker \in ScriptSpeakers : voice.pass[1].used[speaker] # {}

\* ------------------------------------------------------ claims: the backoff
\* The errors of a lost or refused connection.
ConnectionErrors == {ECONN}

\* func has raised a connection error every time it was invoked.
AlwaysConnectionError ==
    \A k \in 1..Len(svc.trace) :
        svc.trace[k].call = "operation" => svc.trace[k].out \in ConnectionErrors

\* C38, the counts: _retry_with_backoff(func, max_retries = R) never invokes
\* func more than R times; when it has ended and func raised a connection
\* error every time, func was invoked R times with R - 1 sleeps and the
\* last error was raised; when it has returned, it returned after the
\* invocation that succeeded, the a-th, and a - 1 sleeps.
C38_AttemptsAndSleeps ==
    svc.fn = FN_RETRY =>
        /\ Invocations <= svc.limit
        /\ svc.pc = "done" /\ AlwaysConnectionError =>
               /\ Invocations = svc.limit
               /\ Sleeps = svc.limit - 1
               /\ svc.result = "raised"
               /\ svc.err = svc.trace[Len(svc.trace)].out
        /\ svc.pc = "done" /\ svc.result = "returned" =>
               /\ svc.trace[Len(svc.trace)].out \in {OK, EMPTY}
               /\ Len(CallsWith("operation", OK)) + Len(CallsWith("operation", EMPTY)) = 1
               /\ Sleeps = Invocations - 1

\* C38: the counts above hold in every state, and every call of
\* _retry_with_backoff ends.
C38_BoundedRetries ==
    /\ []C38_AttemptsAndSleeps
    /\ (svc.fn = FN_RETRY ~> Done(FN_RETRY))

\* C38: a call with max_retries = 3 has ended after three connection
\* errors and two sleeps, raising the third.
C38_GaveUpAfterThree ==
    /\ Done(FN_RETRY)
    /\ svc.limit = max_retries
    /\ svc.trace = <<Event("operation", ECONN), Slept, Event("operation", ECONN),
                     Slept, Event("operation", ECONN)>>
    /\ svc.result = "raised"

\* --------------------------------------------------------- claims: settling
\* create_podcast has handed the podcast's script job to the broker.
Submitted(p) == \E m \in sent : m.podcast = p /\ m.kind = TYPE_SCRIPT_GENERATION

\* The podcast and every task created for it are in a terminal state.
Settled(p) ==
    /\ p \in PodcastIds
    /\ podcasts[p].status \in Terminal
    /\ \A t \in TaskIds : tasks[t].podcast = p => tasks[t].status \in Terminal

\* C39: every submitted podcast eventually settles: the podcast is
\* completed, failed or cancelled, and so is every task created for it.
C39_EverySubmittedPodcastSettles ==
    \A p \in 1..1 : (p \in PodcastIds /\ Submitted(p)) ~> Settled(p)

\* C39: nothing is left to run or to deliver, and a task of the submitted
\* podcast is still queued.
C39_QueuedForGood ==
    /\ 1 \in PodcastIds /\ Submitted(1)
    /\ pending = {}
    /\ \A r \in RunIds : run[r].pc \in {"done", "failed"}
    /\ \E t \in TaskIds : tasks[t].status = STATUS_QUEUED
====
